---- MODULE Spec2Model ----
(***************************************************************************)
(* Seven Living Magicks: the canon registry and adjacency validator        *)
(* (canon/canon.py), the Gray Event model (canon/gray_event.py) and the    *)
(* degeneracy analyzer (src/compression/metrics.py), the step trace of     *)
(* the engine (src/engine/trace.py), the codex check command               *)
(* (src/cli/codex_check.py), the Septenary Spirit Engine                   *)
(* (src/engines/septenary_spirit_engine.py) and the verification service   *)
(* (api/verify.py).                                                        *)
(*                                                                         *)
(* Every function of the first three is a pure function of its arguments,  *)
(* so a behaviour is one call: Init draws the call (function and           *)
(* arguments) and the function's action computes what it returns or        *)
(* raises.  Python's None is the empty tuple << >>, a set Optional value   *)
(* v is the 1-tuple <<v>>; a dict is a function on its keys.  A trace is    *)
(* an object with state: its behaviour is create_trace and then any number *)
(* of add_step calls.                                                      *)
(***************************************************************************)
EXTENDS Integers, Sequences, FiniteSets, TLC

VARIABLES
    pc,     \* "call": the call is pending; "return": it returned or raised;
            \* "serialized": the returned object was converted with to_dict
    call,   \* the pending call: [fn |-> name, ...arguments]
    ret,    \* [raised |-> "none", value |-> v] or [raised |-> exception]
    wire,   \* the dict to_dict produced, << >> before
    zlib,   \* compressed size of every byte string the call compresses
    trace,  \* the ExecutionTrace object of the trace specification, << >>
            \* where no trace is made
    sessions,  \* the trace objects of concurrent sessions and the lists
               \* they refer to, << >> where there are none
    engine  \* the SeptenaryEngine object, << >> where there is none

vars == <<pc, call, ret, wire, zlib, trace, sessions, engine>>

(***************************************************************************)
(* Bounds of the model.                                                    *)
(***************************************************************************)
MaxSeqLen == 3       \* longest sequence handed to validate_sequence
MaxInt == 8          \* integers are drawn from -MaxInt..MaxInt
MaxWalk == 5         \* most steps of a random walk
MaxIndex == 2        \* Gray Event positions are drawn from -1..MaxIndex

Ints == (0 - MaxInt)..MaxInt

None == << >>
Some(v) == <<v>>

Returned(v) == [raised |-> "none", value |-> v]
Raised(e) == [raised |-> e]

(***************************************************************************)
(* Python arithmetic and indexing.                                         *)
(***************************************************************************)
\* a % m of Python ints, m # 0: the result has the sign of m.
PyMod(a, m) == IF m > 0 THEN a % m ELSE 0 - ((0 - a) % (0 - m))

\* x in xs, for a Python list xs
InList(x, xs) == \E k \in 1..Len(xs) : xs[k] = x

(***************************************************************************)
(* canon/canon.py: the canon registry.  canon.json itself is not part of   *)
(* the sources; its values are those the unit tests pin.                   *)
(***************************************************************************)
MODULUS == 7
VALID_DELTAS == <<1, -1, 6>>

COLORS == <<
    [index |-> 0, name |-> <<"B","l","a","c","k">>,     symbol |-> "U+26AB"],
    [index |-> 1, name |-> <<"W","h","i","t","e">>,     symbol |-> "U+26AA"],
    [index |-> 2, name |-> <<"Y","e","l","l","o","w">>, symbol |-> "U+1F7E1"],
    [index |-> 3, name |-> <<"B","r","o","w","n">>,     symbol |-> "U+1F7E4"],
    [index |-> 4, name |-> <<"R","e","d">>,             symbol |-> "U+1F534"],
    [index |-> 5, name |-> <<"G","r","e","e","n">>,     symbol |-> "U+1F7E2"],
    [index |-> 6, name |-> <<"B","l","u","e">>,         symbol |-> "U+1F535"] >>

COLOR_COUNT == Len(COLORS)

\* str.lower() on a string of ASCII letters, one character at a time
UpperLetters == <<"A","B","C","D","E","F","G","H","I","J","K","L","M",
                  "N","O","P","Q","R","S","T","U","V","W","X","Y","Z">>
LowerLetters == <<"a","b","c","d","e","f","g","h","i","j","k","l","m",
                  "n","o","p","q","r","s","t","u","v","w","x","y","z">>

lower_char(c) ==
    IF \E k \in 1..Len(UpperLetters) : UpperLetters[k] = c
    THEN LowerLetters[CHOOSE k \in 1..Len(UpperLetters) : UpperLetters[k] = c]
    ELSE c

lower(s) == [k \in 1..Len(s) |-> lower_char(s[k])]

\* dict.get(key) on a dict built by a comprehension over COLORS: a later
\* entry with the same key overwrites an earlier one.
DictGet(keys, key) ==
    IF \E k \in 1..Len(keys) : keys[k] = key
    THEN LET last == CHOOSE k \in 1..Len(keys) :
                        /\ keys[k] = key
                        /\ \A j \in 1..Len(keys) : keys[j] = key => j <= k
         IN Some(COLORS[last].index)
    ELSE None

SYMBOL_TO_INDEX(symbol) ==
    DictGet([k \in 1..Len(COLORS) |-> COLORS[k].symbol], symbol)

NAME_TO_INDEX(name) ==
    DictGet([k \in 1..Len(COLORS) |-> lower(COLORS[k].name)], name)

\* COLORS[i] of a Python list: negative i counts from the end
ListIndex(xs, i) ==
    IF 0 <= i /\ i < Len(xs) THEN Returned(xs[i + 1])
    ELSE IF 0 - Len(xs) <= i /\ i < 0 THEN Returned(xs[Len(xs) + i + 1])
    ELSE Raised("IndexError")

get_color_by_index_nomod(index) == ListIndex(COLORS, index)

get_color_by_index(index) == ListIndex(COLORS, PyMod(index, MODULUS))

get_color_by_name_default(name) ==
    LET index == NAME_TO_INDEX(lower(name))
    IN IF index = None THEN ListIndex(COLORS, 0)
       ELSE ListIndex(COLORS, index[1])

get_color_by_name(name) ==
    LET index == NAME_TO_INDEX(lower(name))
    IN IF index = None THEN Raised("ValueError")
       ELSE ListIndex(COLORS, index[1])

get_color_by_symbol(symbol) ==
    LET index == SYMBOL_TO_INDEX(symbol)
    IN IF index = None THEN Raised("ValueError")
       ELSE ListIndex(COLORS, index[1])

(***************************************************************************)
(* canon/canon.py: the adjacency rule and the batch validator.             *)
(***************************************************************************)
is_adjacent_forward_only(from_index, to_index) ==
    PyMod(to_index - from_index, MODULUS) = 1

is_adjacent_nowrap(from_index, to_index) ==
    InList(to_index - from_index, VALID_DELTAS)

is_adjacent(from_index, to_index) ==
    LET delta == PyMod(to_index - from_index, MODULUS)
    IN InList(delta, VALID_DELTAS)

Violation(i, from_idx, to_idx) ==
    LET delta == PyMod(to_idx - from_idx, MODULUS)
    IN [type |-> "adjacency_violation", index |-> i,
        from |-> from_idx, to |-> to_idx, delta |-> delta,
        reason |-> <<"Illegal jump: delta", delta, "not in", VALID_DELTAS>>]

\* the loop "for i in range(len(sequence) - 1)", from position i on
RECURSIVE ValidateFrom(_, _, _)
ValidateFrom(sequence, i, violations) ==
    IF i >= Len(sequence) - 1 THEN violations
    ELSE LET from_idx == sequence[i + 1]
             to_idx == sequence[i + 2]
         IN ValidateFrom(sequence, i + 1,
                IF ~ is_adjacent(from_idx, to_idx)
                THEN Append(violations, Violation(i, from_idx, to_idx))
                ELSE violations)

validate_sequence_skip_first(sequence) ==
    LET violations == ValidateFrom(sequence, 1, << >>)
    IN Returned(<<Len(violations) = 0, violations>>)

validate_sequence(sequence) ==
    LET violations == ValidateFrom(sequence, 0, << >>)
    IN Returned(<<Len(violations) = 0, violations>>)

\* tests/test_properties.py: the walk test_random_walk_forward_backward_valid
\* builds from a start colour and a list of directions, each +1 or -1
RECURSIVE random_walk(_, _, _)
random_walk(sequence, current, directions) ==
    IF directions = << >> THEN sequence
    ELSE LET next == PyMod(current + Head(directions), MODULUS)
         IN random_walk(Append(sequence, next), next, Tail(directions))

(***************************************************************************)
(* The calls of the canon specification.                                   *)
(***************************************************************************)
SeqsUpTo(S, n) == UNION {[1..k -> S] : k \in 0..n}

\* every letter-case variant of a name
BothCases(c) ==
    {c} \cup {LowerLetters[k] : k \in {j \in 1..Len(UpperLetters) : UpperLetters[j] = c}}
        \cup {UpperLetters[k] : k \in {j \in 1..Len(LowerLetters) : LowerLetters[j] = c}}

RECURSIVE Casings(_)
Casings(name) ==
    IF name = << >> THEN { << >> }
    ELSE {<<c>> \o rest : c \in BothCases(Head(name)), rest \in Casings(Tail(name))}

UnknownNames ==
    { <<"I","n","v","a","l","i","d","C","o","l","o","r">>, << >>,
      <<"V","i","o","l","e","t">>, <<"G","r","a","y">>,
      <<"B","l","a","c">>, <<"b","l","a","c","k","s">>, <<"r","e","b">> }

KnownSymbols == {COLORS[k].symbol : k \in 1..Len(COLORS)}
UnknownSymbols == {"U+2753", "U+1F7E3", "", "B", "Black"}

CanonCalls ==
    \/ \E f \in Ints, t \in Ints :
          call = [fn |-> "is_adjacent", from_index |-> f, to_index |-> t]
    \/ \E s \in SeqsUpTo(Ints, MaxSeqLen) :
          call = [fn |-> "validate_sequence", sequence |-> s]
    \/ \E start \in 0..6, d \in SeqsUpTo({1, -1}, MaxWalk) :
          call = [fn |-> "random_walk", start |-> start, directions |-> d]
    \/ \E i \in Ints :
          call = [fn |-> "get_color_by_index", index |-> i]
    \/ \E c \in 1..Len(COLORS) : \E n \in Casings(COLORS[c].name) :
          call = [fn |-> "get_color_by_name", name |-> n]
    \/ \E n \in UnknownNames :
          call = [fn |-> "get_color_by_name", name |-> n]
    \/ \E s \in KnownSymbols \cup UnknownSymbols :
          call = [fn |-> "get_color_by_symbol", symbol |-> s]

Init ==
    /\ pc = "call"
    /\ CanonCalls
    /\ ret = << >>
    /\ wire = << >>
    /\ zlib = << >>
    /\ trace = << >>
    /\ sessions = << >>
    /\ engine = << >>

Return(v) ==
    /\ pc' = "return"
    /\ ret' = v
    /\ UNCHANGED <<call, wire, zlib, trace, sessions, engine>>

IsAdjacent ==
    /\ pc = "call" /\ call.fn = "is_adjacent"
    /\ Return(Returned(is_adjacent(call.from_index, call.to_index)))

ValidateSequence ==
    /\ pc = "call" /\ call.fn = "validate_sequence"
    /\ Return(validate_sequence(call.sequence))

RandomWalk ==
    /\ pc = "call" /\ call.fn = "random_walk"
    /\ Return(validate_sequence(
          random_walk(<<call.start>>, call.start, call.directions)))

GetColorByIndex ==
    /\ pc = "call" /\ call.fn = "get_color_by_index"
    /\ Return(get_color_by_index(call.index))

GetColorByName ==
    /\ pc = "call" /\ call.fn = "get_color_by_name"
    /\ Return(get_color_by_name(call.name))

GetColorBySymbol ==
    /\ pc = "call" /\ call.fn = "get_color_by_symbol"
    /\ Return(get_color_by_symbol(call.symbol))

Next ==
    \/ IsAdjacent
    \/ ValidateSequence
    \/ RandomWalk
    \/ GetColorByIndex
    \/ GetColorByName
    \/ GetColorBySymbol

Spec == Init /\ [][Next]_vars

(***************************************************************************)
(* canon/gray_event.py: the Gray Event model.                              *)
(***************************************************************************)
VALID_TYPES ==
    {"adjacency_violation", "degeneracy_detected", "unknown_token",
     "entropy_plateau", "mimic_loop"}

VALID_SEVERITIES == {"warning", "error", "critical"}

FieldNames ==
    {"type", "index", "timestamp", "from_color", "to_color", "delta", "reason",
     "severity", "entropy_metrics", "context", "metadata"}

\* the dataclass defaults; timestamp's default_factory reads the clock
FieldDefaults(now) ==
    [timestamp |-> now, from_color |-> None, to_color |-> None, delta |-> None,
     reason |-> <<"">>, severity |-> "error", entropy_metrics |-> None,
     context |-> None, metadata |-> None]

post_init_no_index_check(self) ==
    IF self.type \notin VALID_TYPES THEN "ValueError"
    ELSE IF self.severity \notin VALID_SEVERITIES THEN "ValueError"
    ELSE "none"

post_init(self) ==
    IF self.type \notin VALID_TYPES THEN "ValueError"
    ELSE IF self.severity \notin VALID_SEVERITIES THEN "ValueError"
    ELSE IF self.index < 0 THEN "ValueError"
    ELSE "none"

\* GrayEvent(**kw): the generated __init__, then __post_init__
GrayEvent(kw, now) ==
    IF ~ (DOMAIN kw \subseteq FieldNames) \/ ~ ({"type", "index"} \subseteq DOMAIN kw)
    THEN Raised("TypeError")
    ELSE LET self == kw @@ FieldDefaults(now)
             err == post_init(self)
         IN IF err = "none" THEN Returned(self) ELSE Raised(err)

\* cls(name=value, ..., **kwargs): a keyword given twice is a TypeError
Cls(explicit, kwargs, now) ==
    IF DOMAIN explicit \cap DOMAIN kwargs # {} THEN Raised("TypeError")
    ELSE GrayEvent(explicit @@ kwargs, now)

EntropyMetrics_to_dict(self) ==
    [k \in {f \in DOMAIN self : self[f] # None} |-> self[k][1]]

EventContext_to_dict(self) ==
    [k \in {f \in {"sequence_length", "window", "file", "line"} : self[f] # None}
        |-> self[k][1]]

ToDictValue(self, key) ==
    CASE key = "type" -> self.type
      [] key = "index" -> self.index
      [] key = "timestamp" -> self.timestamp
      [] key = "reason" -> self.reason
      [] key = "severity" -> self.severity
      [] key = "from" -> self.from_color[1]
      [] key = "to" -> self.to_color[1]
      [] key = "delta" -> self.delta[1]
      [] key = "entropy_metrics" -> EntropyMetrics_to_dict(self.entropy_metrics[1])
      [] key = "context" -> EventContext_to_dict(self.context[1])
      [] key = "metadata" -> self.metadata[1]

to_dict_truthy(self) ==
    LET keys == {"type", "index", "timestamp", "reason", "severity"}
            \cup (IF self.from_color # None /\ self.from_color # Some(0) THEN {"from"} ELSE {})
            \cup (IF self.to_color # None /\ self.to_color # Some(0) THEN {"to"} ELSE {})
            \cup (IF self.delta # None /\ self.delta # Some(0) THEN {"delta"} ELSE {})
            \cup (IF self.entropy_metrics # None THEN {"entropy_metrics"} ELSE {})
            \cup (IF self.context # None THEN {"context"} ELSE {})
            \cup (IF self.metadata # None THEN {"metadata"} ELSE {})
    IN [k \in keys |-> ToDictValue(self, k)]

to_dict(self) ==
    LET keys == {"type", "index", "timestamp", "reason", "severity"}
            \cup (IF self.from_color # None THEN {"from"} ELSE {})
            \cup (IF self.to_color # None THEN {"to"} ELSE {})
            \cup (IF self.delta # None THEN {"delta"} ELSE {})
            \cup (IF self.entropy_metrics # None THEN {"entropy_metrics"} ELSE {})
            \cup (IF self.context # None THEN {"context"} ELSE {})
            \cup (IF self.metadata # None THEN {"metadata"} ELSE {})
    IN [k \in keys |-> ToDictValue(self, k)]

adjacency_violation_mod7(index, from_color, to_color, modulus, kwargs, now) ==
    IF modulus = 0 THEN Raised("ZeroDivisionError")
    ELSE LET delta == PyMod(to_color - from_color, 7)
         IN Cls([type |-> "adjacency_violation", index |-> index,
                 from_color |-> Some(from_color), to_color |-> Some(to_color),
                 delta |-> Some(delta),
                 reason |-> <<"Illegal jump: delta", delta, "not in [1, 6]">>],
                kwargs, now)

adjacency_violation(index, from_color, to_color, modulus, kwargs, now) ==
    IF modulus = 0 THEN Raised("ZeroDivisionError")
    ELSE LET delta == PyMod(to_color - from_color, modulus)
         IN Cls([type |-> "adjacency_violation", index |-> index,
                 from_color |-> Some(from_color), to_color |-> Some(to_color),
                 delta |-> Some(delta),
                 reason |-> <<"Illegal jump: delta", delta, "not in [1, 6]">>],
                kwargs, now)

degeneracy_detected(index, entropy_metrics, kwargs, now) ==
    Cls([type |-> "degeneracy_detected", index |-> index,
         entropy_metrics |-> Some(entropy_metrics),
         reason |-> <<"Compression/entropy indicates mimic loop or degeneracy">>,
         severity |-> "warning"],
        kwargs, now)

unknown_token(index, token, kwargs, now) ==
    Cls([type |-> "unknown_token", index |-> index,
         reason |-> <<"Encountered unknown token", token, "not in canonical sequence">>],
        kwargs, now)

(***************************************************************************)
(* The calls of the Gray Event specification.                              *)
(***************************************************************************)
Positions == -1..MaxIndex

TypeInputs == VALID_TYPES \cup {"bogus"}
SeverityInputs == VALID_SEVERITIES \cup {"extreme"}

MetricsFull ==
    [compression_ratio |-> Some(12), entropy_estimate |-> Some(12),
     ncd_score |-> None, degeneracy_threshold |-> Some(30)]
MetricsEmpty ==
    [compression_ratio |-> None, entropy_estimate |-> None,
     ncd_score |-> None, degeneracy_threshold |-> None]
ContextSample ==
    [sequence_length |-> Some(3), window |-> None, file |-> None, line |-> Some(0)]

\* the keyword arguments a caller adds to a named constructor
Kwargs(n) ==
    CASE n = 0 -> << >>
      [] n = 1 -> [severity |-> "warning"]
      [] n = 2 -> [severity |-> "error"]
      [] n = 3 -> [severity |-> "critical"]
      [] n = 4 -> [severity |-> "extreme"]
      [] n = 5 -> [timestamp |-> 5]
      [] n = 6 -> [metadata |-> Some([source |-> "cli"])]

KwargsChoices == 0..6

Clock == {1}
Moduli == {-7, -2, 0, 1, 5, 7, 12}
Tokens == {"U+1F7E3", "7", "Purple"}

GrayCalls ==
    \/ \E t \in TypeInputs, i \in Positions,
          sev \in {None} \cup {Some(x) : x \in SeverityInputs},
          f \in {None, Some(0), Some(3)}, to \in {None, Some(2)},
          d \in {None, Some(0)}, em \in {None, Some(MetricsFull)},
          ctx \in {None, Some(ContextSample)},
          md \in {None, Some(<< >>)}, now \in Clock :
          call = [fn |-> "GrayEvent", type |-> t, index |-> i, severity |-> sev,
                  from_color |-> f, to_color |-> to, delta |-> d,
                  entropy_metrics |-> em, context |-> ctx, metadata |-> md,
                  now |-> now]
    \/ \E i \in Positions, f \in 0..6, t \in 0..6,
          m \in {None} \cup {Some(x) : x \in Moduli},
          n \in KwargsChoices, now \in Clock :
          call = [fn |-> "adjacency_violation", index |-> i, from_color |-> f,
                  to_color |-> t, modulus |-> m, kwargs |-> Kwargs(n), now |-> now]
    \/ \E i \in Positions, em \in {MetricsFull, MetricsEmpty},
          n \in KwargsChoices, now \in Clock :
          call = [fn |-> "degeneracy_detected", index |-> i,
                  entropy_metrics |-> em, kwargs |-> Kwargs(n), now |-> now]
    \/ \E i \in Positions, tok \in Tokens, n \in KwargsChoices, now \in Clock :
          call = [fn |-> "unknown_token", index |-> i, token |-> tok,
                  kwargs |-> Kwargs(n), now |-> now]

InitGray ==
    /\ pc = "call"
    /\ GrayCalls
    /\ ret = << >>
    /\ wire = << >>
    /\ zlib = << >>
    /\ trace = << >>
    /\ sessions = << >>
    /\ engine = << >>

ConstructGrayEvent ==
    /\ pc = "call" /\ call.fn = "GrayEvent"
    /\ Return(GrayEvent(
          [type |-> call.type, index |-> call.index,
           from_color |-> call.from_color, to_color |-> call.to_color,
           delta |-> call.delta, entropy_metrics |-> call.entropy_metrics,
           context |-> call.context, metadata |-> call.metadata]
          @@ (IF call.severity = None THEN << >>
              ELSE [severity |-> call.severity[1]]),
          call.now))

AdjacencyViolation ==
    /\ pc = "call" /\ call.fn = "adjacency_violation"
    /\ Return(adjacency_violation(call.index, call.from_color, call.to_color,
          IF call.modulus = None THEN 7 ELSE call.modulus[1],
          call.kwargs, call.now))

DegeneracyDetected ==
    /\ pc = "call" /\ call.fn = "degeneracy_detected"
    /\ Return(degeneracy_detected(call.index, call.entropy_metrics,
          call.kwargs, call.now))

UnknownToken ==
    /\ pc = "call" /\ call.fn = "unknown_token"
    /\ Return(unknown_token(call.index, call.token, call.kwargs, call.now))

\* event.to_dict() on the event a constructor returned
ToDict ==
    /\ pc = "return" /\ ret.raised = "none"
    /\ pc' = "serialized"
    /\ wire' = to_dict(ret.value)
    /\ UNCHANGED <<call, ret, zlib, trace, sessions, engine>>

NextGray ==
    \/ ConstructGrayEvent
    \/ AdjacencyViolation
    \/ DegeneracyDetected
    \/ UnknownToken
    \/ ToDict

SpecGray == InitGray /\ [][NextGray]_vars

(***************************************************************************)
(* src/compression/metrics.py: the compression/degeneracy analyzer.        *)
(* zlib.compress is a library function: the model knows only that it is a  *)
(* function of the bytes, so zlib maps every byte string the call          *)
(* compresses to a size Init draws freely.  A float is the exact fraction  *)
(* <<numerator, denominator>> with a positive denominator.                 *)
(***************************************************************************)
MaxDegenLen == 5     \* longest sequence handed to detect_degeneracy
MaxWindow == 2       \* window sizes are drawn from 1..MaxWindow

Lt(a, b) == a[1] * b[2] < b[1] * a[2]

Min(a, b) == IF a <= b THEN a ELSE b
Max(a, b) == IF a >= b THEN a ELSE b

compress_size(data) == zlib[data]

ncd(x, y) ==
    LET c_x == compress_size(x)
        c_y == compress_size(y)
        c_xy == compress_size(x \o y)
        numerator == c_xy - Min(c_x, c_y)
        denominator == Max(c_x, c_y)
    IN IF denominator = 0 THEN <<0, 1>> ELSE <<numerator, denominator>>

entropy_estimate_bits(data) ==
    IF Len(data) = 0 THEN <<0, 1>>
    ELSE <<8 * compress_size(data), Len(data)>>

entropy_estimate(data) ==
    IF Len(data) = 0 THEN <<0, 1>>
    ELSE <<compress_size(data), Len(data)>>

compression_ratio(data) ==
    IF Len(data) = 0 THEN <<0, 1>>
    ELSE <<compress_size(data), Len(data)>>

DEGENERACY_COMPRESSION_THRESHOLD == <<30, 100>>
DEGENERACY_ENTROPY_THRESHOLD == <<50, 100>>
DEGENERACY_NCD_THRESHOLD == <<15, 100>>
DEGENERACY_PLATEAU_WINDOW_COUNT == 3

\* bytes(sequence): every element must be in range(256)
sequence_to_bytes(sequence) ==
    IF \E k \in 1..Len(sequence) : sequence[k] < 0 \/ sequence[k] > 255
    THEN Raised("ValueError")
    ELSE Returned(sequence)

\* [data[i:i + window_size] for i in range(0, len(data) - window_size + 1, step)]
SlidingWindows(data, window_size, step) ==
    [k \in 1..((Len(data) - window_size) \div step + 1) |->
        SubSeq(data, (k - 1) * step + 1, (k - 1) * step + window_size)]

analyze_windows_short_empty(data, window_size) ==
    IF Len(data) < window_size * 2 THEN Returned(<< << >>, << >> >>)
    ELSE LET step == window_size \div 2
         IN IF step = 0 THEN Raised("ValueError")
            ELSE LET windows == SlidingWindows(data, window_size, step)
                     ncds == [i \in 1..(Len(windows) - 1) |->
                                 ncd(windows[i], windows[i + 1])]
                 IN Returned(<<windows, ncds>>)

analyze_windows(data, window_size) ==
    IF Len(data) < window_size * 2 THEN Returned(<< <<data>>, << >> >>)
    ELSE LET step == window_size \div 2
         IN IF step = 0 THEN Raised("ValueError")
            ELSE LET windows == SlidingWindows(data, window_size, step)
                     ncds == [i \in 1..(Len(windows) - 1) |->
                                 ncd(windows[i], windows[i + 1])]
                 IN Returned(<<windows, ncds>>)

\* the loop of detect_entropy_plateau, from the k-th score on
RECURSIVE PlateauFrom(_, _, _, _, _)
PlateauFrom(ncds, k, consecutive_count, threshold, min_consecutive) ==
    IF k > Len(ncds) THEN FALSE
    ELSE IF Lt(ncds[k], threshold)
         THEN IF consecutive_count + 1 >= min_consecutive THEN TRUE
              ELSE PlateauFrom(ncds, k + 1, consecutive_count + 1,
                               threshold, min_consecutive)
         ELSE PlateauFrom(ncds, k + 1, 0, threshold, min_consecutive)

detect_entropy_plateau_total(ncds, threshold, min_consecutive) ==
    Cardinality({k \in 1..Len(ncds) : Lt(ncds[k], threshold)}) >= min_consecutive

detect_entropy_plateau(ncds, threshold, min_consecutive) ==
    IF Len(ncds) < min_consecutive THEN FALSE
    ELSE PlateauFrom(ncds, 1, 0, threshold, min_consecutive)

\* the if / elif / elif of detect_degeneracy: <<is_degenerate, trigger_reason>>
Verdict_entropy_first(comp_ratio, entropy, plateau, window_ncds, compression_threshold, entropy_threshold, ncd_threshold) ==
    IF Lt(entropy, entropy_threshold)
    THEN <<TRUE, Some([kind |-> "Low entropy", value |-> entropy,
                       threshold |-> entropy_threshold])>>
    ELSE IF Lt(comp_ratio, compression_threshold)
    THEN <<TRUE, Some([kind |-> "High compressibility", value |-> comp_ratio,
                       threshold |-> compression_threshold])>>
    ELSE IF plateau
    THEN <<TRUE, Some([kind |-> "Entropy plateau detected",
                       similar |-> Cardinality({i \in 1..Len(window_ncds) :
                                      Lt(window_ncds[i], ncd_threshold)})])>>
    ELSE <<FALSE, None>>

Verdict_above_threshold(comp_ratio, entropy, plateau, window_ncds, compression_threshold, entropy_threshold, ncd_threshold) ==
    IF Lt(compression_threshold, comp_ratio)
    THEN <<TRUE, Some([kind |-> "High compressibility", value |-> comp_ratio,
                       threshold |-> compression_threshold])>>
    ELSE IF Lt(entropy_threshold, entropy)
    THEN <<TRUE, Some([kind |-> "Low entropy", value |-> entropy,
                       threshold |-> entropy_threshold])>>
    ELSE IF plateau
    THEN <<TRUE, Some([kind |-> "Entropy plateau detected",
                       similar |-> Cardinality({i \in 1..Len(window_ncds) :
                                      Lt(window_ncds[i], ncd_threshold)})])>>
    ELSE <<FALSE, None>>

Verdict(comp_ratio, entropy, plateau, window_ncds, compression_threshold, entropy_threshold, ncd_threshold) ==
    IF Lt(comp_ratio, compression_threshold)
    THEN <<TRUE, Some([kind |-> "High compressibility", value |-> comp_ratio,
                       threshold |-> compression_threshold])>>
    ELSE IF Lt(entropy, entropy_threshold)
    THEN <<TRUE, Some([kind |-> "Low entropy", value |-> entropy,
                       threshold |-> entropy_threshold])>>
    ELSE IF plateau
    THEN <<TRUE, Some([kind |-> "Entropy plateau detected",
                       similar |-> Cardinality({i \in 1..Len(window_ncds) :
                                      Lt(window_ncds[i], ncd_threshold)})])>>
    ELSE <<FALSE, None>>

DegeneracyMetrics(is_degenerate, comp_ratio, entropy, window_ncds, plateau, trigger_reason, window_size, num_windows) ==
    [is_degenerate |-> is_degenerate, compression_ratio |-> comp_ratio,
     entropy_estimate |-> entropy, window_ncds |-> window_ncds,
     plateau_detected |-> plateau, trigger_reason |-> trigger_reason,
     window_size |-> window_size, num_windows |-> num_windows]

detect_degeneracy_no_empty_case(sequence, window_size, compression_threshold, entropy_threshold, ncd_threshold) ==
    LET bytes == sequence_to_bytes(sequence)
    IN IF bytes.raised # "none" THEN bytes
       ELSE LET data == bytes.value
                comp_ratio == compression_ratio(data)
                entropy == entropy_estimate(data)
                analysis == analyze_windows(data, window_size)
            IN IF analysis.raised # "none" THEN analysis
               ELSE LET windows == analysis.value[1]
                        window_ncds == analysis.value[2]
                        plateau == detect_entropy_plateau(window_ncds,
                            ncd_threshold, DEGENERACY_PLATEAU_WINDOW_COUNT)
                        verdict == Verdict(comp_ratio, entropy, plateau,
                            window_ncds, compression_threshold,
                            entropy_threshold, ncd_threshold)
                    IN Returned(DegeneracyMetrics(verdict[1], comp_ratio,
                           entropy, window_ncds, plateau, verdict[2],
                           window_size, Len(windows)))

detect_degeneracy(sequence, window_size, compression_threshold, entropy_threshold, ncd_threshold) ==
    IF Len(sequence) = 0
    THEN Returned(DegeneracyMetrics(FALSE, <<0, 1>>, <<0, 1>>, << >>, FALSE,
                                    None, window_size, 0))
    ELSE LET bytes == sequence_to_bytes(sequence)
         IN IF bytes.raised # "none" THEN bytes
            ELSE LET data == bytes.value
                     comp_ratio == compression_ratio(data)
                     entropy == entropy_estimate(data)
                     analysis == analyze_windows(data, window_size)
                 IN IF analysis.raised # "none" THEN analysis
                    ELSE LET windows == analysis.value[1]
                             window_ncds == analysis.value[2]
                             plateau == detect_entropy_plateau(window_ncds,
                                 ncd_threshold, DEGENERACY_PLATEAU_WINDOW_COUNT)
                             verdict == Verdict(comp_ratio, entropy, plateau,
                                 window_ncds, compression_threshold,
                                 entropy_threshold, ncd_threshold)
                         IN Returned(DegeneracyMetrics(verdict[1], comp_ratio,
                                entropy, window_ncds, plateau, verdict[2],
                                window_size, Len(windows)))

\* is_degenerate(data, window_size): the legacy boolean check
is_degenerate(data, window_size) ==
    LET ratio == compression_ratio(data)
        entropy == entropy_estimate(data)
    IN \/ Lt(ratio, DEGENERACY_COMPRESSION_THRESHOLD)
       \/ Lt(entropy, DEGENERACY_ENTROPY_THRESHOLD)

(***************************************************************************)
(* The calls of the degeneracy specification.                              *)
(***************************************************************************)
DegenSymbols == {0, 1}
CompressedSizes == {10, 12}

\* (compression_threshold, entropy_threshold): the defaults, and values in
\* the range of the ratios short inputs have
ThresholdPairs ==
    { <<DEGENERACY_COMPRESSION_THRESHOLD, DEGENERACY_ENTROPY_THRESHOLD>>,
      << <<220, 100>>, DEGENERACY_ENTROPY_THRESHOLD >>,
      << <<220, 100>>, <<250, 100>> >> }

\* the byte strings analyze_windows(data, window_size) compresses
Windowed(data, window_size) ==
    IF Len(data) < window_size * 2 \/ window_size \div 2 = 0 THEN {}
    ELSE LET windows == SlidingWindows(data, window_size, window_size \div 2)
         IN {windows[i] : i \in 1..Len(windows)}
            \cup {windows[i] \o windows[i + 1] : i \in 1..(Len(windows) - 1)}

\* the byte strings detect_degeneracy(sequence, window_size) compresses
Compressed(sequence, window_size) ==
    IF Len(sequence) = 0 THEN {}
    ELSE {sequence} \cup Windowed(sequence, window_size)

\* NCD scores below, between and at the plateau thresholds
MaxNcds == 4         \* longest list handed to detect_entropy_plateau
MaxConsecutive == 3  \* min_consecutive is drawn from 0..MaxConsecutive
NcdScores == { <<0, 1>>, <<10, 100>>, <<15, 100>> }
NcdThresholds == { DEGENERACY_NCD_THRESHOLD, <<5, 100>> }

\* the sequences of test_single_color_repetition and test_mimic_loop_detected
DefaultWindowSize == 50
SingleColor == [i \in 1..100 |-> 0]
MimicLoop == [i \in 1..140 |-> (i - 1) % 7]
MimicWindowSize == 30

\* len(zlib.compress(data)) for the byte strings these two calls compress,
\* as zlib 1.2.13 at its default level produces them: a run of zero bytes
\* takes 12 bytes; of the repeated cycle, 30 and 140 bytes take 18 bytes
\* and 60 bytes take 21
zlib_compress(data) ==
    IF \A k \in 1..Len(data) : data[k] = 0 THEN 12
    ELSE IF Len(data) = 60 THEN 21
    ELSE 18

TestSequences ==
    { <<SingleColor, DefaultWindowSize>>, <<MimicLoop, MimicWindowSize>> }

DegenCall(sequence, window_size, compression_threshold, entropy_threshold) ==
    [fn |-> "detect_degeneracy", sequence |-> sequence,
     window_size |-> window_size,
     compression_threshold |-> compression_threshold,
     entropy_threshold |-> entropy_threshold,
     ncd_threshold |-> DEGENERACY_NCD_THRESHOLD]

InitDegen ==
    /\ pc = "call"
    /\ \/ \E sequence \in SeqsUpTo(DegenSymbols, MaxDegenLen),
             window_size \in 1..MaxWindow, t \in ThresholdPairs :
             /\ call = DegenCall(sequence, window_size, t[1], t[2])
             /\ zlib \in [Compressed(sequence, window_size) -> CompressedSizes]
       \/ \E t \in TestSequences :
             /\ call = DegenCall(t[1], t[2], DEGENERACY_COMPRESSION_THRESHOLD,
                                 DEGENERACY_ENTROPY_THRESHOLD)
             /\ zlib = [data \in Compressed(t[1], t[2]) |-> zlib_compress(data)]
       \/ \E data \in SeqsUpTo(DegenSymbols, MaxDegenLen),
             window_size \in 1..MaxWindow :
             /\ call = [fn |-> "analyze_windows", data |-> data,
                        window_size |-> window_size]
             /\ zlib \in [Windowed(data, window_size) -> CompressedSizes]
       \/ \E ncds \in SeqsUpTo(NcdScores, MaxNcds), threshold \in NcdThresholds,
             min_consecutive \in 0..MaxConsecutive :
             /\ call = [fn |-> "detect_entropy_plateau", ncds |-> ncds,
                        threshold |-> threshold,
                        min_consecutive |-> min_consecutive]
             /\ zlib = << >>
       \/ \E data \in SeqsUpTo(DegenSymbols, MaxDegenLen) :
             /\ call = [fn |-> "is_degenerate", data |-> data,
                        window_size |-> DefaultWindowSize]
             /\ zlib \in [Compressed(data, DefaultWindowSize) -> CompressedSizes]
    /\ ret = << >>
    /\ wire = << >>
    /\ trace = << >>
    /\ sessions = << >>
    /\ engine = << >>

DetectDegeneracy ==
    /\ pc = "call" /\ call.fn = "detect_degeneracy"
    /\ Return(detect_degeneracy(call.sequence, call.window_size,
          call.compression_threshold, call.entropy_threshold, call.ncd_threshold))

AnalyzeWindows ==
    /\ pc = "call" /\ call.fn = "analyze_windows"
    /\ Return(analyze_windows(call.data, call.window_size))

DetectEntropyPlateau ==
    /\ pc = "call" /\ call.fn = "detect_entropy_plateau"
    /\ Return(Returned(detect_entropy_plateau(call.ncds, call.threshold,
                                              call.min_consecutive)))

IsDegenerate ==
    /\ pc = "call" /\ call.fn = "is_degenerate"
    /\ Return(Returned(is_degenerate(call.data, call.window_size)))

NextDegen ==
    DetectDegeneracy \/ AnalyzeWindows \/ DetectEntropyPlateau \/ IsDegenerate

SpecDegen == InitDegen /\ [][NextDegen]_vars

(***************************************************************************)
(* src/engine/trace.py: the step trace.  create_trace makes the trace      *)
(* object; every add_step call checks one transition, counts it, and       *)
(* records it with the Gray Event of an illegal one.                       *)
(***************************************************************************)
MaxSteps == 3        \* most add_step calls on a trace

StepTrace(step_number, timestamp, input_state, operator, output_state, is_legal, delta, cost_metrics, metadata, gray_event) ==
    [step_number |-> step_number, timestamp |-> timestamp,
     input_state |-> input_state, operator |-> operator,
     output_state |-> output_state, is_legal |-> is_legal, delta |-> delta,
     cost_metrics |-> cost_metrics, metadata |-> metadata,
     gray_event |-> gray_event]

ExecutionTrace(trace_id, start_time) ==
    [trace_id |-> trace_id, start_time |-> start_time, steps |-> << >>,
     total_steps |-> 0, legal_steps |-> 0, illegal_steps |-> 0,
     gray_events |-> << >>]

\* trace_id None: the id is made from the local time
create_trace(trace_id, now) ==
    ExecutionTrace(IF trace_id = None THEN <<"trace-", now>> ELSE trace_id[1],
                   now)

\* the if not is_legal / else of add_step: the trace with the transition
\* counted, and the dict of its Gray Event (None for a legal one)
count_step_index_next(self, is_legal, input_state, output_state, now) ==
    IF ~ is_legal
    THEN LET event == adjacency_violation(self.total_steps + 1, input_state,
                                          output_state, 7, << >>, now)
         IN IF event.raised # "none" THEN event
            ELSE LET gray_event == to_dict(event.value)
                 IN Returned([self |-> [self EXCEPT
                                  !.gray_events = Append(@, gray_event),
                                  !.illegal_steps = @ + 1],
                              gray_event |-> Some(gray_event)])
    ELSE Returned([self |-> [self EXCEPT !.legal_steps = @ + 1],
                   gray_event |-> None])

count_step_event_unlisted(self, is_legal, input_state, output_state, now) ==
    IF ~ is_legal
    THEN LET event == adjacency_violation(self.total_steps, input_state,
                                          output_state, 7, << >>, now)
         IN IF event.raised # "none" THEN event
            ELSE LET gray_event == to_dict(event.value)
                 IN Returned([self |-> [self EXCEPT !.illegal_steps = @ + 1],
                              gray_event |-> Some(gray_event)])
    ELSE Returned([self |-> [self EXCEPT !.legal_steps = @ + 1],
                   gray_event |-> None])

count_step_events_replaced(self, is_legal, input_state, output_state, now) ==
    IF ~ is_legal
    THEN LET event == adjacency_violation(self.total_steps, input_state,
                                          output_state, 7, << >>, now)
         IN IF event.raised # "none" THEN event
            ELSE LET gray_event == to_dict(event.value)
                 IN Returned([self |-> [self EXCEPT
                                  !.gray_events = <<gray_event>>,
                                  !.illegal_steps = @ + 1],
                              gray_event |-> Some(gray_event)])
    ELSE Returned([self |-> [self EXCEPT !.legal_steps = @ + 1],
                   gray_event |-> None])

count_step(self, is_legal, input_state, output_state, now) ==
    IF ~ is_legal
    THEN LET event == adjacency_violation(self.total_steps, input_state,
                                          output_state, 7, << >>, now)
         IN IF event.raised # "none" THEN event
            ELSE LET gray_event == to_dict(event.value)
                 IN Returned([self |-> [self EXCEPT
                                  !.gray_events = Append(@, gray_event),
                                  !.illegal_steps = @ + 1],
                              gray_event |-> Some(gray_event)])
    ELSE Returned([self |-> [self EXCEPT !.legal_steps = @ + 1],
                   gray_event |-> None])

add_step_signed_delta(self, input_state, operator, output_state, cost_metrics, metadata, now) ==
    LET is_legal == is_adjacent(input_state, output_state)
        delta == output_state - input_state
        counted == count_step(self, is_legal, input_state, output_state, now)
    IN IF counted.raised # "none" THEN [self |-> self, ret |-> counted]
       ELSE LET step == StepTrace(counted.value.self.total_steps, now,
                                  input_state, operator, output_state,
                                  is_legal, delta, cost_metrics, metadata,
                                  counted.value.gray_event)
            IN [self |-> [counted.value.self EXCEPT
                             !.steps = Append(@, step),
                             !.total_steps = @ + 1],
                ret |-> Returned(step)]

\* [self |-> the trace after the call, ret |-> the step returned]
add_step(self, input_state, operator, output_state, cost_metrics, metadata, now) ==
    LET is_legal == is_adjacent(input_state, output_state)
        delta == PyMod(output_state - input_state, 7)
        counted == count_step(self, is_legal, input_state, output_state, now)
    IN IF counted.raised # "none" THEN [self |-> self, ret |-> counted]
       ELSE LET step == StepTrace(counted.value.self.total_steps, now,
                                  input_state, operator, output_state,
                                  is_legal, delta, cost_metrics, metadata,
                                  counted.value.gray_event)
            IN [self |-> [counted.value.self EXCEPT
                             !.steps = Append(@, step),
                             !.total_steps = @ + 1],
                ret |-> Returned(step)]

\* StepTrace.to_dict: asdict, without the optional fields that are None
StepTrace_to_dict(self) ==
    LET keys == {"step_number", "timestamp", "input_state", "operator",
                 "output_state", "is_legal", "delta"}
            \cup (IF self.cost_metrics # None THEN {"cost_metrics"} ELSE {})
            \cup (IF self.metadata # None THEN {"metadata"} ELSE {})
            \cup (IF self.gray_event # None THEN {"gray_event"} ELSE {})
    IN [k \in keys |->
          IF k \in {"cost_metrics", "metadata", "gray_event"} THEN self[k][1]
          ELSE self[k]]

ExecutionTrace_to_dict(self) ==
    [trace_id |-> self.trace_id, start_time |-> self.start_time,
     total_steps |-> self.total_steps, legal_steps |-> self.legal_steps,
     illegal_steps |-> self.illegal_steps, gray_events |-> self.gray_events,
     steps |-> [i \in 1..Len(self.steps) |-> StepTrace_to_dict(self.steps[i])]]

\* json.dumps writes every value as the JSON text of its Python type: an
\* int or float as a number, a str as a string, a bool as true or false, a
\* dict as an object and a list as an array.  A JSON text is modelled by
\* the value tagged with the kind of text it is.
JNumber(n) == [json |-> "number", value |-> n]
JString(s) == [json |-> "string", value |-> s]
JBool(b) == [json |-> IF b THEN "true" ELSE "false"]
JObject(members) == [json |-> "object", members |-> members]
JArray(items) == [json |-> "array", items |-> items]

\* the dict of a Gray Event made by adjacency_violation
dumps_gray_event(d) ==
    JObject([k \in DOMAIN d |->
        IF k \in {"index", "from", "to", "delta"} THEN JNumber(d[k])
        ELSE JString(d[k])])

\* cost_metrics: Dict[str, float]; metadata: here a dict of strings
dumps_step(d) ==
    JObject([k \in DOMAIN d |->
        CASE k \in {"step_number", "input_state", "output_state", "delta"}
                -> JNumber(d[k])
          [] k \in {"timestamp", "operator"} -> JString(d[k])
          [] k = "is_legal" -> JBool(d[k])
          [] k = "cost_metrics"
                -> JObject([m \in DOMAIN d[k] |-> JNumber(d[k][m])])
          [] k = "metadata"
                -> JObject([m \in DOMAIN d[k] |-> JString(d[k][m])])
          [] k = "gray_event" -> dumps_gray_event(d[k])])

json_dumps(data) ==
    JObject([k \in DOMAIN data |->
        CASE k \in {"trace_id", "start_time"} -> JString(data[k])
          [] k \in {"total_steps", "legal_steps", "illegal_steps"}
                -> JNumber(data[k])
          [] k = "gray_events"
                -> JArray([i \in 1..Len(data[k]) |-> dumps_gray_event(data[k][i])])
          [] k = "steps"
                -> JArray([i \in 1..Len(data[k]) |-> dumps_step(data[k][i])])])

\* json.load: every JSON text back to the Python value it denotes
RECURSIVE json_load(_)
json_load(text) ==
    CASE text.json \in {"number", "string"} -> text.value
      [] text.json = "true" -> TRUE
      [] text.json = "false" -> FALSE
      [] text.json = "object"
            -> [k \in DOMAIN text.members |-> json_load(text.members[k])]
      [] text.json = "array"
            -> [i \in 1..Len(text.items) |-> json_load(text.items[i])]

to_json(self) == json_dumps(ExecutionTrace_to_dict(self))

\* StepTrace(**step_data): a missing or an unknown keyword is a TypeError,
\* an optional one left out takes its default None
StepTrace_from(step_data) ==
    LET required == {"step_number", "timestamp", "input_state", "operator",
                     "output_state", "is_legal", "delta"}
        optional == {"cost_metrics", "metadata", "gray_event"}
        Opt(k) == IF k \in DOMAIN step_data THEN Some(step_data[k]) ELSE None
    IN IF ~ (required \subseteq DOMAIN step_data)
          \/ ~ (DOMAIN step_data \subseteq required \cup optional)
       THEN Raised("TypeError")
       ELSE Returned(StepTrace(step_data["step_number"],
                step_data["timestamp"], step_data["input_state"],
                step_data["operator"], step_data["output_state"],
                step_data["is_legal"], step_data["delta"],
                Opt("cost_metrics"), Opt("metadata"), Opt("gray_event")))

load_without_events(text) ==
    LET data == json_load(text)
        trace_0 == [ExecutionTrace(data["trace_id"], data["start_time"])
                    EXCEPT !.total_steps = data["total_steps"],
                           !.legal_steps = data["legal_steps"],
                           !.illegal_steps = data["illegal_steps"]]
        steps == [i \in 1..Len(data["steps"]) |-> StepTrace_from(data["steps"][i])]
    IN IF \E i \in 1..Len(steps) : steps[i].raised # "none"
       THEN Raised("TypeError")
       ELSE Returned([trace_0 EXCEPT
                !.steps = [i \in 1..Len(steps) |-> steps[i].value]])

\* ExecutionTrace.load, from the text of the file
load(text) ==
    LET data == json_load(text)
        trace_0 == [ExecutionTrace(data["trace_id"], data["start_time"])
                    EXCEPT !.total_steps = data["total_steps"],
                           !.legal_steps = data["legal_steps"],
                           !.illegal_steps = data["illegal_steps"],
                           !.gray_events = data["gray_events"]]
        steps == [i \in 1..Len(data["steps"]) |-> StepTrace_from(data["steps"][i])]
    IN IF \E i \in 1..Len(steps) : steps[i].raised # "none"
       THEN Raised("TypeError")
       ELSE Returned([trace_0 EXCEPT
                !.steps = [i \in 1..Len(steps) |-> steps[i].value]])

(***************************************************************************)
(* The calls of the trace specification.  wire is the text of the file     *)
(* save writes and load reads.                                             *)
(***************************************************************************)
TraceStates == {0, 1, 6}
TraceIds == {None, Some("run-1")}

\* (operator, cost_metrics, metadata) of an add_step call
StepOptions(n) ==
    CASE n = 0 -> <<"forward", None, None>>
      [] n = 1 -> <<"custom", Some([time_ms |-> 1]), Some([note |-> "x"])>>

StepChoices == 0..1

InitTrace ==
    /\ pc = "trace"
    /\ \E trace_id \in TraceIds, now \in Clock :
          /\ call = [fn |-> "create_trace", trace_id |-> trace_id]
          /\ trace = create_trace(trace_id, now)
    /\ sessions = << >>
    /\ engine = << >>
    /\ ret = << >>
    /\ wire = << >>
    /\ zlib = << >>

AddStep ==
    /\ pc = "trace"
    /\ trace.total_steps < MaxSteps
    /\ \E input_state \in TraceStates, output_state \in TraceStates,
          n \in StepChoices, now \in Clock :
          LET o == StepOptions(n)
              r == add_step(trace, input_state, o[1], output_state, o[2],
                            o[3], now)
          IN /\ call' = [fn |-> "add_step", input_state |-> input_state,
                         operator |-> o[1], output_state |-> output_state,
                         cost_metrics |-> o[2], metadata |-> o[3]]
             /\ trace' = r.self
             /\ ret' = r.ret
    /\ UNCHANGED <<pc, wire, zlib, sessions, engine>>

\* save(path): the JSON text of the trace is written to the file
Save ==
    /\ pc = "trace"
    /\ pc' = "saved"
    /\ call' = [fn |-> "save"]
    /\ wire' = to_json(trace)
    /\ ret' = Returned(None)
    /\ UNCHANGED <<zlib, trace, sessions, engine>>

\* ExecutionTrace.load(path): a new trace object made from the file
Load ==
    /\ pc = "saved"
    /\ pc' = "loaded"
    /\ call' = [fn |-> "load"]
    /\ ret' = load(wire)
    /\ UNCHANGED <<wire, zlib, trace, sessions, engine>>

NextTrace == AddStep \/ Save \/ Load

SpecTrace == InitTrace /\ [][NextTrace]_vars

(***************************************************************************)
(* Concurrent sessions, each with its own ExecutionTrace.  Here a list is  *)
(* an object: heap[r] is the content of the list with reference r, and a   *)
(* trace object holds the references of its steps and gray_events lists,   *)
(* so that two traces sharing a list would be seen.  The calls of the      *)
(* sessions interleave; one add_step call is one step.                     *)
(***************************************************************************)
MaxSessionSteps == 2   \* most add_step calls of one session

Sessions == {"a", "b"}

\* (input_state, output_state) of the add_step calls of a session
SessionInputs == { <<0, 1>>, <<0, 3>>, <<6, 0>>, <<2, 2>> }

\* ExecutionTrace(trace_id=..., start_time=...): an instance attribute
\* shared by all instances in place of field(default_factory=list)
new_trace_shared_lists(heap, trace_id, start_time) ==
    [heap |-> IF Len(heap) = 0 THEN << << >>, << >> >> ELSE heap,
     self |-> [ExecutionTrace(trace_id, start_time)
               EXCEPT !.steps = 1, !.gray_events = 2]]

\* ExecutionTrace(trace_id=..., start_time=...): field(default_factory=list)
\* makes a new list for steps and a new list for gray_events
new_trace(heap, trace_id, start_time) ==
    [heap |-> heap \o << << >>, << >> >>,
     self |-> [ExecutionTrace(trace_id, start_time)
               EXCEPT !.steps = Len(heap) + 1, !.gray_events = Len(heap) + 2]]

\* add_step on a trace object whose lists are in the heap:
\* [heap |-> the lists after the call, self |-> the object after the call]
add_step_at(heap, self, input_state, operator, output_state, cost_metrics, metadata, now) ==
    LET is_legal == is_adjacent(input_state, output_state)
        delta == PyMod(output_state - input_state, 7)
        event == adjacency_violation(self.total_steps, input_state,
                                     output_state, 7, << >>, now)
        gray_event == IF is_legal THEN None ELSE Some(to_dict(event.value))
        heap_1 == IF is_legal THEN heap
                  ELSE [heap EXCEPT ![self.gray_events] = Append(@, gray_event[1])]
        self_1 == IF is_legal THEN [self EXCEPT !.legal_steps = @ + 1]
                  ELSE [self EXCEPT !.illegal_steps = @ + 1]
        step == StepTrace(self_1.total_steps, now, input_state, operator,
                          output_state, is_legal, delta, cost_metrics,
                          metadata, gray_event)
    IN [heap |-> [heap_1 EXCEPT ![self_1.steps] = Append(@, step)],
        self |-> [self_1 EXCEPT !.total_steps = @ + 1]]

\* the trace object with the content of its lists
TraceValue(heap, self) ==
    [self EXCEPT !.steps = heap[self.steps],
                 !.gray_events = heap[self.gray_events]]

\* both sessions have made their trace; fed[s] lists the add_step calls
\* session s has made
RECURSIVE MakeTraces(_, _, _)
MakeTraces(ids, heap, traces) ==
    IF ids = {} THEN [heap |-> heap, traces |-> traces]
    ELSE LET s == CHOOSE x \in ids : TRUE
             made == new_trace(heap, s, 1)
         IN MakeTraces(ids \ {s}, made.heap, traces @@ (s :> made.self))

InitSessions ==
    /\ pc = "sessions"
    /\ call = [fn |-> "create_trace"]
    /\ ret = << >>
    /\ wire = << >>
    /\ zlib = << >>
    /\ trace = << >>
    /\ engine = << >>
    /\ LET made == MakeTraces(Sessions, << >>, << >>)
       IN sessions = [heap |-> made.heap, traces |-> made.traces,
                      fed |-> [s \in Sessions |-> << >>]]

AddStepIn(s) ==
    /\ pc = "sessions"
    /\ sessions.traces[s].total_steps < MaxSessionSteps
    /\ \E input \in SessionInputs, now \in Clock :
          LET r == add_step_at(sessions.heap, sessions.traces[s], input[1],
                               "forward", input[2], None, None, now)
          IN /\ call' = [fn |-> "add_step", session |-> s,
                         input_state |-> input[1], output_state |-> input[2]]
             /\ sessions' = [heap |-> r.heap,
                             traces |-> [sessions.traces EXCEPT ![s] = r.self],
                             fed |-> [sessions.fed EXCEPT ![s] = Append(@, input)]]
    /\ UNCHANGED <<pc, ret, wire, zlib, trace, engine>>

NextSessions == \E s \in Sessions : AddStepIn(s)

SpecSessions == InitSessions /\ [][NextSessions]_vars

(***************************************************************************)
(* src/cli/codex_check.py: the codex check command.  The content read is   *)
(* either a text of characters or, when it starts with '[', a JSON text:   *)
(* a well-formed array (given by its items) or a malformed one.  An item   *)
(* is the JSON text of a number, a string, true, false or null; a          *)
(* character is a one-character string, a colour symbol its code point.    *)
(***************************************************************************)
MaxTokens == 3       \* most tokens of an input

JNull == [json |-> "null"]

isspace(char) == char \in {" ", "\n", "\t"}

RECURSIVE lstrip(_)
lstrip(s) == IF s # << >> /\ isspace(Head(s)) THEN lstrip(Tail(s)) ELSE s

RECURSIVE rstrip(_)
rstrip(s) ==
    IF s # << >> /\ isspace(s[Len(s)]) THEN rstrip(SubSeq(s, 1, Len(s) - 1))
    ELSE s

strip(s) == rstrip(lstrip(s))

\* content.split('\n'): the lines, from the characters after position k on
RECURSIVE SplitFrom(_, _, _, _)
SplitFrom(s, k, line, lines) ==
    IF k > Len(s) THEN Append(lines, line)
    ELSE IF s[k] = "\n" THEN SplitFrom(s, k + 1, << >>, Append(lines, line))
    ELSE SplitFrom(s, k + 1, Append(line, s[k]), lines)

split_lines(s) == SplitFrom(s, 1, << >>, << >>)

\* the event unknown_token(i, token) makes
UnknownTokenEvent(i, token, now) == unknown_token(i, token, << >>, now).value

\* the loop over the items of the JSON array, from item i on (from 0):
\* a bool is an int in Python, True is 1 and False is 0
RECURSIVE ParseItems(_, _, _, _, _)
ParseItems(data, i, indices, parse_errors, now) ==
    IF i >= Len(data) THEN <<indices, parse_errors>>
    ELSE LET item == data[i + 1]
             unknown == Append(parse_errors, UnknownTokenEvent(i, item, now))
         IN CASE item.json \in {"number", "true", "false"}
                   -> LET n == IF item.json = "number" THEN item.value
                               ELSE IF item.json = "true" THEN 1 ELSE 0
                      IN IF 0 <= n /\ n <= 6
                         THEN ParseItems(data, i + 1, Append(indices, n),
                                         parse_errors, now)
                         ELSE ParseItems(data, i + 1, indices, unknown, now)
              [] item.json = "string"
                   -> LET idx == NAME_TO_INDEX(lower(item.value))
                      IN IF idx # None
                         THEN ParseItems(data, i + 1, Append(indices, idx[1]),
                                         parse_errors, now)
                         ELSE ParseItems(data, i + 1, indices, unknown, now)
              [] OTHER -> ParseItems(data, i + 1, indices, unknown, now)

\* the loop over the characters, from character i on (from 0):
\* [done |-> the loop ended without break, indices |-> ...]
RECURSIVE ParseSymbols(_, _, _)
ParseSymbols(chars, i, indices) ==
    IF i >= Len(chars) THEN [done |-> TRUE, indices |-> indices]
    ELSE LET char == chars[i + 1]
         IN IF SYMBOL_TO_INDEX(char) # None
            THEN ParseSymbols(chars, i + 1,
                              Append(indices, SYMBOL_TO_INDEX(char)[1]))
            ELSE IF isspace(char) THEN ParseSymbols(chars, i + 1, indices)
            ELSE [done |-> FALSE, indices |-> indices]

\* the loop over the lines, from line i on (from 0)
RECURSIVE ParseLines(_, _, _, _, _)
ParseLines(lines, i, indices, parse_errors, now) ==
    IF i >= Len(lines) THEN <<indices, parse_errors>>
    ELSE LET line == strip(lines[i + 1])
             idx == NAME_TO_INDEX(lower(line))
         IN IF line = << >>
            THEN ParseLines(lines, i + 1, indices, parse_errors, now)
            ELSE IF idx # None
            THEN ParseLines(lines, i + 1, Append(indices, idx[1]),
                            parse_errors, now)
            ELSE ParseLines(lines, i + 1, indices,
                    Append(parse_errors, UnknownTokenEvent(i, line, now)), now)

\* <<indices, parse_errors>>, or SystemExit(1) on malformed JSON
parse_tokens(content, now) ==
    CASE content.kind = "bad_json" -> [raised |-> "SystemExit", code |-> 1]
      [] content.kind = "json"
            -> Returned(ParseItems(content.data, 0, << >>, << >>, now))
      [] content.kind = "text"
            -> LET chars == strip(content.chars)
                   symbols == ParseSymbols(chars, 0, << >>)
               IN IF symbols.done THEN Returned(<<symbols.indices, << >> >>)
                  ELSE IF symbols.indices = << >>
                  THEN Returned(ParseLines(split_lines(chars), 0, << >>,
                                           << >>, now))
                  ELSE Returned(<<symbols.indices, << >> >>)

\* create_gray_events_from_violations
create_gray_events_from_violations(violations, now) ==
    [k \in 1..Len(violations) |->
        adjacency_violation(violations[k].index, violations[k].from,
                            violations[k].to, 7, << >>, now).value]

\* sys.exit(code) after what was printed on stdout; indices and
\* parse_errors are main's variables of these names at that point
Exit(code, stdout, indices, parse_errors) ==
    [raised |-> "SystemExit", code |-> code, stdout |-> stdout,
     indices |-> indices, parse_errors |-> parse_errors]

\* what main prints: the JSON output, or the summary's status line and
\* the number of Gray Events it lists
Output(as_json, is_valid, indices, all_violations) ==
    IF as_json
    THEN [is_valid |-> is_valid, sequence_length |-> Len(indices),
          gray_events |-> [k \in 1..Len(all_violations) |->
                              to_dict(all_violations[k])]]
    ELSE [status |-> IF is_valid THEN "PASS" ELSE "FAIL",
          sequence_length |-> Len(indices),
          gray_events |-> Len(all_violations)]

main_accepts_no_tokens(args, now) ==
    IF args.source \in {"none", "missing_file"}
    THEN Exit(1, None, << >>, << >>)
    ELSE LET parsed == parse_tokens(args.content, now)
         IN IF parsed.raised # "none" THEN Exit(1, None, << >>, << >>)
            ELSE LET indices == parsed.value[1]
                     parse_errors == parsed.value[2]
                     result == validate_sequence(indices).value
                     is_valid == result[1]
                     all_violations == parse_errors \o
                         create_gray_events_from_violations(result[2], now)
                     ok == is_valid /\ parse_errors = << >>
                 IN Exit(IF ok THEN 0 ELSE 1,
                         Some(Output(args.json, ok, indices, all_violations)),
                         indices, parse_errors)

main(args, now) ==
    IF args.source \in {"none", "missing_file"}
    THEN Exit(1, None, << >>, << >>)
    ELSE LET parsed == parse_tokens(args.content, now)
         IN IF parsed.raised # "none" THEN Exit(1, None, << >>, << >>)
            ELSE LET indices == parsed.value[1]
                     parse_errors == parsed.value[2]
                 IN IF indices = << >>
                    THEN Exit(1, None, indices, parse_errors)
                    ELSE LET result == validate_sequence(indices).value
                             is_valid == result[1]
                             all_violations == parse_errors \o
                                 create_gray_events_from_violations(result[2], now)
                             ok == is_valid /\ parse_errors = << >>
                         IN Exit(IF ok THEN 0 ELSE 1,
                                 Some(Output(args.json, ok, indices,
                                             all_violations)),
                                 indices, parse_errors)

(***************************************************************************)
(* The calls of the codex check specification: an input is built from      *)
(* tokens in one of the three forms the command accepts.                   *)
(***************************************************************************)
\* items of a JSON array: indices in and out of 0..6, names known (in any
\* case) and unknown, true and null
Item(n) ==
    CASE n = 0 -> JNumber(0)
      [] n = 1 -> JNumber(1)
      [] n = 2 -> JNumber(3)
      [] n = 3 -> JNumber(7)
      [] n = 4 -> JString(<<"W","h","i","t","e">>)
      [] n = 5 -> JString(<<"V","i","o","l","e","t">>)
      [] n = 6 -> JBool(TRUE)
      [] n = 7 -> JNull

ItemChoices == 0..7

\* symbols: Black, White, Blue and Violet, which is no colour of the canon
SymbolTokens == { <<"U+26AB">>, <<"U+26AA">>, <<"U+1F535">>, <<"U+1F7E3">> }

NameTokens ==
    { <<"B","l","a","c","k">>, <<"w","h","i","t","e">>, <<"B","L","U","E">>,
      <<"V","i","o","l","e","t">> }

RECURSIVE Join(_, _)
Join(tokens, separator) ==
    IF tokens = << >> THEN << >>
    ELSE IF Len(tokens) = 1 THEN Head(tokens)
    ELSE Head(tokens) \o separator \o Join(Tail(tokens), separator)

CheckCall(source, form, tokens, content, as_json) ==
    [fn |-> "codex_check", source |-> source, form |-> form,
     tokens |-> tokens, content |-> content, json |-> as_json]

CheckCalls ==
    \/ \E source \in {"none", "missing_file"} :
          call = CheckCall(source, "none", << >>, << >>, FALSE)
    \/ \E source \in {"stdin", "file"} :
          call = CheckCall(source, "json", << >>, [kind |-> "bad_json"], FALSE)
    \/ \E source \in {"stdin", "file"}, as_json \in BOOLEAN,
          ns \in SeqsUpTo(ItemChoices, MaxTokens) :
          LET data == [k \in 1..Len(ns) |-> Item(ns[k])]
          IN call = CheckCall(source, "json", data,
                              [kind |-> "json", data |-> data], as_json)
    \/ \E source \in {"stdin", "file"}, as_json \in BOOLEAN,
          tokens \in SeqsUpTo(SymbolTokens, MaxTokens),
          separator \in { << >>, <<" ">> } :
          call = CheckCall(source, "symbols", tokens,
                           [kind |-> "text", chars |-> Join(tokens, separator)],
                           as_json)
    \/ \E source \in {"stdin", "file"}, as_json \in BOOLEAN,
          tokens \in SeqsUpTo(NameTokens, MaxTokens),
          separator \in { <<"\n">>, <<" ", "\n">> } :
          call = CheckCall(source, "names", tokens,
                           [kind |-> "text",
                            chars |-> Join(tokens, separator) \o <<"\n">>],
                           as_json)

InitCheck ==
    /\ pc = "call"
    /\ CheckCalls
    /\ ret = << >>
    /\ wire = << >>
    /\ zlib = << >>
    /\ trace = << >>
    /\ sessions = << >>
    /\ engine = << >>

CodexCheck ==
    /\ pc = "call" /\ call.fn = "codex_check"
    /\ \E now \in Clock :
          Return(main([source |-> call.source, content |-> call.content,
                       json |-> call.json], now))

NextCheck == CodexCheck

SpecCheck == InitCheck /\ [][NextCheck]_vars

(***************************************************************************)
(* Streaming a sequence through a trace: a caller holds a sequence of      *)
(* colour indices and hands its consecutive pairs, in order, to add_step   *)
(* on a fresh trace.                                                       *)
(***************************************************************************)
MaxStream == 4       \* longest sequence streamed

InitStream ==
    /\ pc = "stream"
    /\ \E sequence \in SeqsUpTo(0..6, MaxStream), now \in Clock :
          /\ call = [fn |-> "stream", sequence |-> sequence]
          /\ trace = create_trace(None, now)
    /\ ret = << >>
    /\ wire = << >>
    /\ zlib = << >>
    /\ sessions = << >>
    /\ engine = << >>

\* the next pair (sequence[i], sequence[i + 1]) goes to add_step
Feed ==
    /\ pc = "stream"
    /\ trace.total_steps + 1 < Len(call.sequence)
    /\ \E now \in Clock :
          LET i == trace.total_steps
              r == add_step(trace, call.sequence[i + 1], "forward",
                            call.sequence[i + 2], None, None, now)
          IN /\ trace' = r.self
             /\ ret' = r.ret
    /\ UNCHANGED <<pc, call, wire, zlib, sessions, engine>>

NextStream == Feed

SpecStream == InitStream /\ [][NextStream]_vars

(***************************************************************************)
(* api/verify.py: the verification service.  A text is a unit repeated a   *)
(* number of times; its length, its Shannon entropy and its zlib           *)
(* compression ratio are the values CPython computes for it, to six        *)
(* decimal places.                                                         *)
(***************************************************************************)
Le(a, b) == a[1] * b[2] <= b[1] * a[2]

\* the dict in the order of its keys
PHASE_BOUNDS ==
    << [phase |-> "WHITE_LATTICE", entropy_max |-> <<38, 10>>, compression_min |-> <<35, 100>>],
       [phase |-> "YELLOW_IGNITION", entropy_max |-> <<42, 10>>, compression_min |-> <<25, 100>>],
       [phase |-> "RED_COMBUSTION", entropy_max |-> <<48, 10>>, compression_min |-> <<15, 100>>],
       [phase |-> "ORANGE_HARVEST", entropy_max |-> <<52, 10>>, compression_min |-> <<10, 100>>],
       [phase |-> "GREEN_ACCUMULATION", entropy_max |-> <<45, 10>>, compression_min |-> <<20, 100>>],
       [phase |-> "BLUE_DISPERSION", entropy_max |-> <<55, 10>>, compression_min |-> <<5, 100>>],
       [phase |-> "BLACK_COLLAPSE", entropy_max |-> <<70, 10>>, compression_min |-> <<0, 100>>] >>

Measured(n) ==
    CASE n = 1 -> [text |-> [unit |-> "a", times |-> 1], length |-> 1,
                    entropy |-> <<0, 1000000>>, compression |-> <<-8000000, 1000000>>]
      [] n = 2 -> [text |-> [unit |-> "hello", times |-> 1], length |-> 5,
                    entropy |-> <<1921928, 1000000>>, compression |-> <<-1600000, 1000000>>]
      [] n = 3 -> [text |-> [unit |-> "a", times |-> 40], length |-> 40,
                    entropy |-> <<0, 1000000>>, compression |-> <<700000, 1000000>>]
      [] n = 4 -> [text |-> [unit |-> "ab", times |-> 50], length |-> 100,
                    entropy |-> <<1000000, 1000000>>, compression |-> <<870000, 1000000>>]
      [] n = 5 -> [text |-> [unit |-> "abcdefghijkl", times |-> 3], length |-> 36,
                    entropy |-> <<3584963, 1000000>>, compression |-> <<361111, 1000000>>]
      [] n = 6 -> [text |-> [unit |-> "abcdefghijklmn", times |-> 2], length |-> 28,
                    entropy |-> <<3807355, 1000000>>, compression |-> <<107143, 1000000>>]
      [] n = 7 -> [text |-> [unit |-> "abcdefghijklmnop", times |-> 20], length |-> 320,
                    entropy |-> <<4000000, 1000000>>, compression |-> <<909375, 1000000>>]
      [] n = 8 -> [text |-> [unit |-> "abcdefghijklmnopqr", times |-> 3], length |-> 54,
                    entropy |-> <<4169925, 1000000>>, compression |-> <<462963, 1000000>>]
      [] n = 9 -> [text |-> [unit |-> "abcdefghijklmnopqrst", times |-> 2], length |-> 40,
                    entropy |-> <<4321928, 1000000>>, compression |-> <<225000, 1000000>>]
      [] n = 10 -> [text |-> [unit |-> "abcdefghijklmnopqrstuv", times |-> 20], length |-> 440,
                    entropy |-> <<4459432, 1000000>>, compression |-> <<920455, 1000000>>]
      [] n = 11 -> [text |-> [unit |-> "abcdefghijklmnopqrstuvwxyz", times |-> 1], length |-> 26,
                    entropy |-> <<4700440, 1000000>>, compression |-> <<-307692, 1000000>>]
      [] n = 12 -> [text |-> [unit |-> "abcdefghijklmnopqrstuvwxyz", times |-> 20], length |-> 520,
                    entropy |-> <<4700440, 1000000>>, compression |-> <<925000, 1000000>>]
      [] n = 13 -> [text |-> [unit |-> "abcdefghijklmnopqrstuvwxyzABCDEF", times |-> 20], length |-> 640,
                    entropy |-> <<5000000, 1000000>>, compression |-> <<926562, 1000000>>]
      [] n = 14 -> [text |-> [unit |-> "abcdefghijklmnopqrstuvwxyzABCDEFGHIJKLMN", times |-> 20], length |-> 800,
                    entropy |-> <<5321928, 1000000>>, compression |-> <<930000, 1000000>>]
      [] n = 15 -> [text |-> [unit |-> "abcdefghijklmnopqrstuvwxyzABCDEFGHIJKLMNOPQRSTUVWXYZ0123456789!?", times |-> 20], length |-> 1280,
                    entropy |-> <<6000000, 1000000>>, compression |-> <<934375, 1000000>>]

TextChoices == 1..15

MeasuredOf(text) == Measured(CHOOSE n \in TextChoices : Measured(n).text = text)

shannon_entropy(text) == MeasuredOf(text).entropy

verify_compression_ratio(text) == MeasuredOf(text).compression

classify_phase(entropy_val, comp_ratio) ==
    IF Le(entropy_val, <<38, 10>>) /\ Le(<<35, 100>>, comp_ratio)
    THEN "WHITE_LATTICE"
    ELSE IF Le(entropy_val, <<42, 10>>) /\ Le(<<25, 100>>, comp_ratio)
    THEN "YELLOW_IGNITION"
    ELSE IF Le(entropy_val, <<45, 10>>) /\ Le(<<20, 100>>, comp_ratio)
    THEN "GREEN_ACCUMULATION"
    ELSE IF Le(entropy_val, <<48, 10>>) /\ Le(<<15, 100>>, comp_ratio)
    THEN "RED_COMBUSTION"
    ELSE IF Le(entropy_val, <<52, 10>>) /\ Le(<<10, 100>>, comp_ratio)
    THEN "ORANGE_HARVEST"
    ELSE IF Le(entropy_val, <<55, 10>>) /\ Le(<<5, 100>>, comp_ratio)
    THEN "BLUE_DISPERSION"
    ELSE "BLACK_COLLAPSE"

\* list.index(x): the position from 0, or ValueError
index(list, x) ==
    IF \E k \in 1..Len(list) : list[k] = x
    THEN Returned((CHOOSE k \in 1..Len(list) :
                      list[k] = x /\ \A j \in 1..(k - 1) : list[j] # x) - 1)
    ELSE Raised("ValueError")

\* round(x, ndigits) of a value given to six decimal places
round(x, ndigits) ==
    LET scale == x[2] \div (10 ^ ndigits)
    IN <<(x[1] + scale \div 2) \div scale, 10 ^ ndigits>>

verify_text(text, threshold) ==
    LET entropy_val == shannon_entropy(text)
        comp_ratio == verify_compression_ratio(text)
        detected_phase == classify_phase(entropy_val, comp_ratio)
        phase_order == [k \in 1..Len(PHASE_BOUNDS) |-> PHASE_BOUNDS[k].phase]
        threshold_idx == index(phase_order, threshold)
        detected_idx == index(phase_order, detected_phase)
    IN IF threshold_idx.raised # "none" THEN threshold_idx
       ELSE Returned(
              [verified |-> detected_idx.value <= threshold_idx.value,
               detected_phase |-> detected_phase,
               threshold_phase |-> threshold,
               metrics |-> [entropy_bits |-> round(entropy_val, 4),
                            compression_ratio |-> round(comp_ratio, 4),
                            text_length |-> MeasuredOf(text).length],
               bounds_used |->
                   LET bounds == PHASE_BOUNDS[detected_idx.value + 1]
                   IN [entropy_max |-> bounds.entropy_max,
                       compression_min |-> bounds.compression_min]])

Thresholds ==
    {PHASE_BOUNDS[k].phase : k \in 1..Len(PHASE_BOUNDS)} \cup {"VIOLET_CLOSURE"}

InitVerify ==
    /\ pc = "call"
    /\ \E n \in TextChoices, threshold \in Thresholds :
          call = [fn |-> "verify_text", text |-> Measured(n).text,
                  threshold |-> threshold]
    /\ ret = << >>
    /\ wire = << >>
    /\ zlib = << >>
    /\ trace = << >>
    /\ sessions = << >>
    /\ engine = << >>

VerifyText ==
    /\ pc = "call" /\ call.fn = "verify_text"
    /\ Return(verify_text(call.text, call.threshold))

NextVerify == VerifyText

SpecVerify == InitVerify /\ [][NextVerify]_vars

(***************************************************************************)
(* src/engines/septenary_spirit_engine.py: the Septenary Spirit Engine.    *)
(* The engine's state is modelled by its phase, its angle on the Living    *)
(* Wheel and its cycle count; history holds the snapshot every step takes. *)
(* The thermodynamic fields (entropy, energy, potential, psi, temperature, *)
(* resonance) are computed from the stimulus and from each other only and  *)
(* never enter phase, angle or cycle_count, so a stimulus list is given by *)
(* its length.  The angle, a float that only ever holds whole numbers      *)
(* below 364, is an integer.                                               *)
(***************************************************************************)
MaxEngineSteps == 26     \* most steps taken on one engine
MaxStimuli == 8          \* longest stimulus list handed to run_full_cycle

LIVING_CIRCLE == 364
PHASE_ANGLE == 52

SpiritState(phase, angle, cycle_count) ==
    [phase |-> phase, angle |-> angle, cycle_count |-> cycle_count]

\* SeptenaryEngine(): [state |-> self.state, history |-> self.history]
SeptenaryEngine == [state |-> SpiritState("BLACK", 0, 0), history |-> << >>]

\* [state |-> self.state after the call, next_phase |-> the phase returned]
_advance_phase_without_violet(state) ==
    LET phase_order == <<"BLACK", "WHITE", "YELLOW", "BROWN", "RED", "GREEN", "BLUE">>
    IN IF state.phase = "BLUE"
       THEN [state |-> [state EXCEPT !.cycle_count = @ + 1],
             next_phase |-> "BLACK"]
       ELSE IF state.phase = "VIOLET"
       THEN [state |-> state, next_phase |-> "BLACK"]
       ELSE LET current_idx == index(phase_order, state.phase).value
                next_idx == (current_idx + 1) % Len(phase_order)
            IN [state |-> state, next_phase |-> phase_order[next_idx + 1]]

_advance_phase(state) ==
    LET phase_order == <<"BLACK", "WHITE", "YELLOW", "BROWN", "RED", "GREEN", "BLUE">>
    IN IF state.phase = "BLUE"
       THEN [state |-> [state EXCEPT !.cycle_count = @ + 1],
             next_phase |-> "VIOLET"]
       ELSE IF state.phase = "VIOLET"
       THEN [state |-> state, next_phase |-> "BLACK"]
       ELSE LET current_idx == index(phase_order, state.phase).value
                next_idx == (current_idx + 1) % Len(phase_order)
            IN [state |-> state, next_phase |-> phase_order[next_idx + 1]]

\* step(input_stimulus): the engine after the call; the state returned is
\* self.state itself
SeptenaryEngine_step(self) ==
    LET turned == [self.state EXCEPT
                      !.angle = (@ + PHASE_ANGLE) % LIVING_CIRCLE]
        advanced == _advance_phase(turned)
    IN [state |-> [advanced.state EXCEPT !.phase = advanced.next_phase],
        history |-> Append(self.history, turned)]

RECURSIVE StepTimes(_, _)
StepTimes(self, n) ==
    IF n = 0 THEN self ELSE StepTimes(SeptenaryEngine_step(self), n - 1)

\* run_full_cycle(input_stimuli): a step per stimulus of input_stimuli[:7],
\* then the Violet closure step; every entry of the list returned is
\* self.state, the one state object of the engine
run_full_cycle(self, input_stimuli) ==
    LET given == IF input_stimuli = None THEN 7 ELSE input_stimuli[1]
        taken == Min(given, 7) + 1
        after == StepTimes(self, taken)
    IN [self |-> after,
        ret |-> Returned([k \in 1..taken |-> after.state])]

\* None, or the length of the stimulus list
Stimuli == {None} \cup {Some(n) : n \in 0..MaxStimuli}

InitEngine ==
    /\ pc = "engine"
    /\ call = [fn |-> "SeptenaryEngine"]
    /\ engine = SeptenaryEngine
    /\ ret = << >>
    /\ wire = << >>
    /\ zlib = << >>
    /\ trace = << >>
    /\ sessions = << >>

Step ==
    /\ pc = "engine"
    /\ Len(engine.history) < MaxEngineSteps
    /\ call' = [fn |-> "step"]
    /\ engine' = SeptenaryEngine_step(engine)
    /\ ret' = Returned(engine'.state)
    /\ UNCHANGED <<pc, wire, zlib, trace, sessions>>

RunFullCycle ==
    /\ pc = "engine"
    /\ \E input_stimuli \in Stimuli :
          LET r == run_full_cycle(engine, input_stimuli)
          IN /\ Len(r.self.history) <= MaxEngineSteps
             /\ call' = [fn |-> "run_full_cycle", input_stimuli |-> input_stimuli]
             /\ engine' = r.self
             /\ ret' = r.ret
    /\ UNCHANGED <<pc, wire, zlib, trace, sessions>>

NextEngine == Step \/ RunFullCycle

SpecEngine == InitEngine /\ [][NextEngine]_vars

(***************************************************************************)
(* Properties of the canon registry and the adjacency validator.           *)
(***************************************************************************)
Done(fn) == pc = "return" /\ call.fn = fn

\* C1: for all from, to in 0..6, is_adjacent(from, to) is true exactly when
\* (to - from) mod 7 is 1 or 6: the forward step and the backward step are
\* legal, the self-transition and every jump of delta 2..5 are illegal.
C1_AdjacencyLaw ==
    (/\ Done("is_adjacent")
     /\ call.from_index \in 0..6
     /\ call.to_index \in 0..6)
    => LET f == call.from_index
           t == call.to_index
           d == (t - f) % 7
       IN /\ ret.raised = "none"
          /\ ret.value <=> d \in {1, 6}
          /\ t = (f + 1) % 7 => ret.value
          /\ t = (f - 1) % 7 => ret.value
          /\ t = f => ~ ret.value
          /\ d \in 2..5 => ~ ret.value

C1_Witness ==
    /\ Done("is_adjacent")
    /\ call.from_index = 0
    /\ call.to_index = 6
    /\ ret.value

\* the positions i of a sequence whose pair (seq[i], seq[i+1]) is illegal
IllegalPositions(seq) ==
    {i \in 0..(Len(seq) - 2) : ((seq[i + 2] - seq[i + 1]) % 7) \notin {1, 6}}

\* C2: validate_sequence(seq) never raises and returns (is_valid, violations)
\* where violations holds, in ascending position order, exactly one
\* descriptor (index, from, to, delta) per illegal pair, and is_valid is
\* true iff violations is empty; length 0 or 1 is valid with no violation.
C2_ValidateSequence ==
    Done("validate_sequence")
    => /\ ret.raised = "none"
       /\ LET seq == call.sequence
              is_valid == ret.value[1]
              violations == ret.value[2]
          IN /\ Len(violations) = Cardinality(IllegalPositions(seq))
             /\ \A k \in 1..Len(violations) :
                   LET v == violations[k]
                   IN /\ v.index \in IllegalPositions(seq)
                      /\ v.type = "adjacency_violation"
                      /\ v.from = seq[v.index + 1]
                      /\ v.to = seq[v.index + 2]
                      /\ v.delta = (v.to - v.from) % 7
                      /\ k < Len(violations) => v.index < violations[k + 1].index
             /\ is_valid <=> violations = << >>
             /\ Len(seq) <= 1 => is_valid /\ violations = << >>

C2_Witness ==
    /\ Done("validate_sequence")
    /\ Len(call.sequence) = 3
    /\ call.sequence[1] < 0
    /\ call.sequence[3] > 6
    /\ ~ ret.value[1]
    /\ Len(ret.value[2]) = 1
    /\ ret.value[2][1].index = 1

\* C3: any finite walk that starts at a colour in 0..6 and moves by +1 or -1
\* modulo 7 at each step is valid with zero violations.
C3_RandomWalkValid ==
    Done("random_walk") => ret = Returned(<<TRUE, << >>>>)

C3_Witness ==
    /\ Done("random_walk")
    /\ call.start = 6
    /\ Len(call.directions) >= 3
    /\ call.directions[1] = 1
    /\ call.directions[2] = -1
    /\ call.directions[3] = -1
    /\ ret.value[1]

\* C8: get_color_by_index(i) resolves every integer i to the Color whose
\* index is i mod 7, a value in 0..6; it never fails.
C8_IndexWraps ==
    Done("get_color_by_index")
    => /\ ret.raised = "none"
       /\ ret.value.index \in 0..6
       /\ \E q \in (0 - MaxInt)..MaxInt : call.index = 7 * q + ret.value.index
       /\ ret.value \in {COLORS[k] : k \in 1..Len(COLORS)}

C8_Witness ==
    /\ Done("get_color_by_index")
    /\ call.index = -8
    /\ ret.raised = "none"
    /\ ret.value.index = 6

\* two characters that are the same letter, whatever their case
SameLetter(a, b) ==
    \/ a = b
    \/ \E j \in 1..Len(UpperLetters) : {a, b} = {UpperLetters[j], LowerLetters[j]}

IsCasingOf(name, canonical) ==
    /\ Len(name) = Len(canonical)
    /\ \A k \in 1..Len(name) : SameLetter(name[k], canonical[k])

\* C9: get_color_by_name and get_color_by_symbol return the Color with
\* index c for the name (in any letter case) or the symbol of colour c, and
\* fail with a not-found error for every other key, never with a default.
C9_NameSymbolLookup ==
    /\ Done("get_color_by_name")
       => /\ \A k \in 1..Len(COLORS) :
                IsCasingOf(call.name, COLORS[k].name)
                => ret = Returned(COLORS[k]) /\ ret.value.index = k - 1
          /\ (\A k \in 1..Len(COLORS) : ~ IsCasingOf(call.name, COLORS[k].name))
                => ret = Raised("ValueError")
    /\ Done("get_color_by_symbol")
       => /\ \A k \in 1..Len(COLORS) :
                call.symbol = COLORS[k].symbol
                => ret = Returned(COLORS[k]) /\ ret.value.index = k - 1
          /\ (\A k \in 1..Len(COLORS) : call.symbol # COLORS[k].symbol)
                => ret = Raised("ValueError")

C9_Witness ==
    /\ Done("get_color_by_name")
    /\ call.name = <<"Y","E","l","L","o","w">>
    /\ ret.raised = "none"
    /\ ret.value.index = 2

(***************************************************************************)
(* Properties of the Gray Event model.                                     *)
(***************************************************************************)
FiveTypes ==
    {"adjacency_violation", "degeneracy_detected", "unknown_token",
     "entropy_plateau", "mimic_loop"}
ThreeSeverities == {"warning", "error", "critical"}
NamedConstructors == {"adjacency_violation", "degeneracy_detected", "unknown_token"}

\* C4: constructing a GrayEvent fails whenever its type is not one of the
\* five kinds, its severity is not one of warning, error, critical, or its
\* index is negative; nothing is coerced, so every event that exists has a
\* type and a severity of these sets and a non-negative index.
C4_ConstructionRejects ==
    /\ Done("GrayEvent")
       => LET severity == IF call.severity = None THEN "error" ELSE call.severity[1]
              bad == \/ call.type \notin FiveTypes
                     \/ severity \notin ThreeSeverities
                     \/ call.index < 0
          IN /\ bad => ret = Raised("ValueError")
             /\ ~ bad => /\ ret.raised = "none"
                         /\ ret.value.type = call.type
                         /\ ret.value.severity = severity
                         /\ ret.value.index = call.index
    /\ (pc \in {"return", "serialized"} /\ call.fn \in NamedConstructors \cup {"GrayEvent"}
        /\ ret.raised = "none")
       => /\ ret.value.type \in FiveTypes
          /\ ret.value.severity \in ThreeSeverities
          /\ ret.value.index >= 0

C4_Witness ==
    /\ Done("GrayEvent")
    /\ call.type = "mimic_loop"
    /\ call.severity = Some("critical")
    /\ call.index = -1
    /\ ret = Raised("ValueError")

\* C5: to_dict always yields the five required keys type, index, timestamp,
\* reason, severity, and each optional key (from, to, delta,
\* entropy_metrics, context, metadata) exactly when its field is set; an
\* absent field is omitted, and a present key carries the field's value.
C5_SparseDict ==
    pc = "serialized"
    => LET self == ret.value
           keys == DOMAIN wire
       IN /\ {"type", "index", "timestamp", "reason", "severity"} \subseteq keys
          /\ keys \subseteq {"type", "index", "timestamp", "reason", "severity", "from",
                             "to", "delta", "entropy_metrics", "context", "metadata"}
          /\ wire["type"] = self.type
          /\ wire["index"] = self.index
          /\ wire["timestamp"] = self.timestamp
          /\ wire["reason"] = self.reason
          /\ wire["severity"] = self.severity
          /\ "from" \in keys <=> self.from_color # None
          /\ "to" \in keys <=> self.to_color # None
          /\ "delta" \in keys <=> self.delta # None
          /\ "entropy_metrics" \in keys <=> self.entropy_metrics # None
          /\ "context" \in keys <=> self.context # None
          /\ "metadata" \in keys <=> self.metadata # None
          /\ "from" \in keys => <<wire["from"]>> = self.from_color
          /\ "to" \in keys => <<wire["to"]>> = self.to_color
          /\ "delta" \in keys => <<wire["delta"]>> = self.delta
          /\ "metadata" \in keys => <<wire["metadata"]>> = self.metadata

C5_Witness ==
    /\ pc = "serialized"
    /\ call.fn = "GrayEvent"
    /\ ret.value.from_color = Some(0)
    /\ ret.value.to_color = None
    /\ ret.value.delta = Some(0)
    /\ ret.value.metadata = Some(<< >>)
    /\ ret.value.context = None
    /\ DOMAIN wire = {"type", "index", "timestamp", "reason", "severity",
                      "from", "delta", "metadata"}

\* d is (a mod m): a - d is a multiple of m and d lies between 0 and m
IsMod(d, a, m) ==
    /\ \E q \in -20..20 : a = q * m + d
    /\ m > 0 => 0 <= d /\ d < m
    /\ m < 0 => m < d /\ d <= 0

GivenModulus == IF call.modulus = None THEN 7 ELSE call.modulus[1]

AdjacencyEventOf(modulus) ==
    /\ ret.raised = "none"
    /\ ret.value.type = "adjacency_violation"
    /\ ret.value.index = call.index
    /\ ret.value.from_color = Some(call.from_color)
    /\ ret.value.to_color = Some(call.to_color)
    /\ ret.value.delta # None
    /\ IsMod(ret.value.delta[1], call.to_color - call.from_color, modulus)

\* C6 as stated: adjacency_violation(index, from, to, modulus) yields an
\* adjacency_violation event with the given colours and delta = (to - from)
\* mod modulus, for every non-negative index, pair of colours and modulus.
C6_DeltaEveryModulus ==
    (Done("adjacency_violation") /\ call.index >= 0 /\ DOMAIN call.kwargs = {})
    => AdjacencyEventOf(GivenModulus)

\* C6 as amended: the same, for every modulus other than 0 (the result of
\* Python's %, which has the sign of the modulus).
C6_DeltaNonZeroModulus ==
    (Done("adjacency_violation") /\ call.index >= 0 /\ DOMAIN call.kwargs = {}
     /\ GivenModulus # 0)
    => AdjacencyEventOf(GivenModulus)

C6_Witness ==
    /\ Done("adjacency_violation")
    /\ call.index = 1
    /\ DOMAIN call.kwargs = {}
    /\ call.modulus = Some(5)
    /\ call.from_color = 6
    /\ call.to_color = 2
    /\ ret.raised = "none"
    /\ ret.value.delta = Some(1)

DefaultSeverity(fn) == IF fn = "degeneracy_detected" THEN "warning" ELSE "error"

\* C7: with no severity given, adjacency_violation yields error,
\* degeneracy_detected warning and unknown_token error; when the caller
\* supplies a severity from warning, error, critical, each of the three
\* constructors yields an event with that severity.
C7_SeverityDefaults ==
    (/\ pc = "return"
     /\ call.fn \in NamedConstructors
     /\ call.index >= 0
     /\ call.fn = "adjacency_violation" => GivenModulus # 0)
    => /\ DOMAIN call.kwargs = {}
          => ret.raised = "none" /\ ret.value.severity = DefaultSeverity(call.fn)
       /\ (DOMAIN call.kwargs = {"severity"} /\ call.kwargs.severity \in ThreeSeverities)
          => ret.raised = "none" /\ ret.value.severity = call.kwargs.severity

(***************************************************************************)
(* Properties of the degeneracy analyzer.                                  *)
(***************************************************************************)
ReasonKind(metrics) ==
    IF metrics.trigger_reason = None THEN "null" ELSE metrics.trigger_reason[1].kind

\* C10: for a non-empty sequence the result of detect_degeneracy has
\* is_degenerate = true iff (compression ratio < compression threshold) or
\* (entropy estimate < entropy threshold) or (plateau detected);
\* trigger_reason names the first of the three conditions that holds, in
\* that order, and is null exactly when is_degenerate is false.
C10_Verdict ==
    (Done("detect_degeneracy") /\ Len(call.sequence) > 0 /\ ret.raised = "none")
    => LET m == ret.value
           compressible == Lt(m.compression_ratio, call.compression_threshold)
           low_entropy == Lt(m.entropy_estimate, call.entropy_threshold)
           plateau == m.plateau_detected
       IN /\ m.is_degenerate <=> (compressible \/ low_entropy \/ plateau)
          /\ compressible => ReasonKind(m) = "High compressibility"
          /\ (~ compressible /\ low_entropy) => ReasonKind(m) = "Low entropy"
          /\ (~ compressible /\ ~ low_entropy /\ plateau)
                => ReasonKind(m) = "Entropy plateau detected"
          /\ m.trigger_reason = None <=> ~ m.is_degenerate

C10_Witness ==
    /\ Done("detect_degeneracy")
    /\ ret.raised = "none"
    /\ ret.value.is_degenerate
    /\ ret.value.plateau_detected
    /\ ~ Lt(ret.value.compression_ratio, call.compression_threshold)
    /\ ~ Lt(ret.value.entropy_estimate, call.entropy_threshold)
    /\ ReasonKind(ret.value) = "Entropy plateau detected"

\* C11: detect_degeneracy on the empty sequence returns is_degenerate =
\* false, num_windows = 0, compression_ratio = 0.0, entropy_estimate = 0.0,
\* an empty window_ncds, plateau_detected = false and trigger_reason = null,
\* for every window size and every threshold setting.
C11_EmptySequence ==
    (Done("detect_degeneracy") /\ Len(call.sequence) = 0)
    => /\ ret.raised = "none"
       /\ ~ ret.value.is_degenerate
       /\ ret.value.num_windows = 0
       /\ ret.value.compression_ratio[1] = 0
       /\ ret.value.entropy_estimate[1] = 0
       /\ ret.value.window_ncds = << >>
       /\ ~ ret.value.plateau_detected
       /\ ret.value.trigger_reason = None

C11_Witness ==
    /\ Done("detect_degeneracy")
    /\ Len(call.sequence) = 0
    /\ call.window_size = 1
    /\ call.compression_threshold # DEGENERACY_COMPRESSION_THRESHOLD
    /\ ret.raised = "none"
    /\ ret.value.num_windows = 0

\* C12: for every non-empty input shorter than twice the window size the
\* windowed analysis takes the whole input as its one window: analyze_windows
\* returns ([data], []), and detect_degeneracy reports num_windows = 1, an
\* empty window_ncds and plateau_detected = false, with the compression ratio
\* and the entropy estimate of the whole input (compressed size / size).
C12_ShortInput ==
    /\ (Done("analyze_windows") /\ Len(call.data) > 0
            /\ Len(call.data) < 2 * call.window_size)
       => ret = Returned(<< <<call.data>>, << >> >>)
    /\ (Done("detect_degeneracy") /\ Len(call.sequence) > 0
            /\ Len(call.sequence) < 2 * call.window_size)
       => /\ ret.raised = "none"
          /\ ret.value.num_windows = 1
          /\ ret.value.window_ncds = << >>
          /\ ~ ret.value.plateau_detected
          /\ ret.value.compression_ratio
                = <<zlib[call.sequence], Len(call.sequence)>>
          /\ ret.value.entropy_estimate
                = <<zlib[call.sequence], Len(call.sequence)>>

C12_Witness ==
    /\ Done("detect_degeneracy")
    /\ Len(call.sequence) = 3
    /\ call.window_size = 2
    /\ ret.raised = "none"
    /\ ret.value.num_windows = 1
    /\ ret.value.compression_ratio = <<12, 3>>

\* C13: for data of length n >= 2 * w, analyze_windows(data, w) returns, in
\* order, the windows data[k*s : k*s + w] with s = w div 2 for every k >= 0
\* with k*s + w <= n, each of exactly w bytes, and one NCD score per
\* consecutive pair of windows: len(ncds) = len(windows) - 1.
C13_SlidingWindows ==
    (Done("analyze_windows") /\ Len(call.data) >= 2 * call.window_size)
    => /\ ret.raised = "none"
       /\ LET n == Len(call.data)
              w == call.window_size
              s == w \div 2
              windows == ret.value[1]
              ncds == ret.value[2]
          IN /\ Len(windows) = Cardinality({k \in 0..n : k * s + w <= n})
             /\ \A k \in 0..(Len(windows) - 1) :
                   /\ windows[k + 1] = SubSeq(call.data, k * s + 1, k * s + w)
                   /\ Len(windows[k + 1]) = w
             /\ Len(ncds) = Len(windows) - 1

\* C14: detect_entropy_plateau(ncds, threshold, min_consecutive) returns true
\* exactly when ncds has a run of at least min_consecutive adjacent scores
\* all strictly below threshold; it returns false for every list shorter than
\* min_consecutive and for every list whose runs below threshold are shorter.
HasRun(ncds, threshold, min_consecutive) ==
    \E i \in 1..Len(ncds) : \E j \in i..Len(ncds) :
        /\ j - i + 1 >= min_consecutive
        /\ \A k \in i..j : Lt(ncds[k], threshold)

C14_Plateau ==
    Done("detect_entropy_plateau")
    => /\ ret.raised = "none"
       /\ ret.value <=> HasRun(call.ncds, call.threshold, call.min_consecutive)
       /\ Len(call.ncds) < call.min_consecutive => ~ ret.value

C14_Witness ==
    /\ Done("detect_entropy_plateau")
    /\ call.min_consecutive = 2
    /\ Len(call.ncds) = 3
    /\ Lt(call.ncds[1], call.threshold)
    /\ ~ Lt(call.ncds[2], call.threshold)
    /\ Lt(call.ncds[3], call.threshold)
    /\ ret = Returned(FALSE)

\* C15: the entropy estimate of a byte input equals its compression ratio,
\* compressed size / original size, and both are 0.0 for the empty input:
\* every result of detect_degeneracy has entropy_estimate = compression_ratio.
C15_EntropyIsRatio ==
    (Done("detect_degeneracy") /\ ret.raised = "none")
    => /\ ret.value.entropy_estimate = ret.value.compression_ratio
       /\ Len(call.sequence) = 0 => ret.value.compression_ratio[1] = 0
       /\ Len(call.sequence) > 0
             => ret.value.compression_ratio
                   = <<zlib[call.sequence], Len(call.sequence)>>

C15_Witness ==
    /\ Done("detect_degeneracy")
    /\ ret.raised = "none"
    /\ Len(call.sequence) = 5
    /\ ret.value.entropy_estimate = <<10, 5>>
    /\ ret.value.compression_ratio = <<10, 5>>

\* C17: detect_degeneracy returns a DegeneracyMetrics result and never
\* raises, for every sequence of indices in 0..6 and every window size >= 1.
C17_NeverRaises ==
    (Done("detect_degeneracy") /\ call.window_size >= 1
        /\ \A k \in 1..Len(call.sequence) : call.sequence[k] \in 0..6)
    => ret.raised = "none"

\* C18: [0] * 100 is judged degenerate, and [0, 1, 2, 3, 4, 5, 6] * 20 with
\* window_size = 30 is judged degenerate with a trigger_reason that names
\* compression, plateau or entropy.
C18_TestSequences ==
    /\ (Done("detect_degeneracy") /\ call.sequence = SingleColor
            /\ call.window_size = DefaultWindowSize)
       => (ret.raised = "none" /\ ret.value.is_degenerate)
    /\ (Done("detect_degeneracy") /\ call.sequence = MimicLoop
            /\ call.window_size = MimicWindowSize)
       => /\ ret.raised = "none"
          /\ ret.value.is_degenerate
          /\ ReasonKind(ret.value) \in {"High compressibility", "Low entropy",
                                         "Entropy plateau detected"}

C18_Witness ==
    /\ Done("detect_degeneracy")
    /\ call.sequence = MimicLoop
    /\ call.window_size = MimicWindowSize
    /\ ret.raised = "none"
    /\ ret.value.num_windows = 8
    /\ ret.value.compression_ratio = <<18, 140>>

(***************************************************************************)
(* Properties of the step trace.                                           *)
(***************************************************************************)
\* one add_step call: trace is the trace before it, trace' the trace after
\* it and call' its arguments; add_step is the step that stays at "trace"
C19_Step ==
    LET n == trace.total_steps
        step == trace'.steps[Len(trace'.steps)]
        legal == is_adjacent(call'.input_state, call'.output_state)
    IN /\ trace'.steps = Append(trace.steps, step)
       /\ step.step_number = n
       /\ step.input_state = call'.input_state
       /\ step.output_state = call'.output_state
       /\ step.is_legal = legal
       /\ step.delta = (call'.output_state - call'.input_state) % 7
       /\ trace'.total_steps = n + 1
       /\ IF legal
          THEN /\ trace'.legal_steps = trace.legal_steps + 1
               /\ trace'.illegal_steps = trace.illegal_steps
               /\ step.gray_event = None
               /\ trace'.gray_events = trace.gray_events
          ELSE LET event == trace'.gray_events[Len(trace'.gray_events)]
               IN /\ trace'.illegal_steps = trace.illegal_steps + 1
                  /\ trace'.legal_steps = trace.legal_steps
                  /\ trace'.gray_events = Append(trace.gray_events, event)
                  /\ step.gray_event = Some(event)
                  /\ event["type"] = "adjacency_violation"
                  /\ event["index"] = n
                  /\ event["from"] = step.input_state
                  /\ event["to"] = step.output_state
                  /\ event["delta"] = step.delta

\* C19: add_step appends exactly one step, whose step_number is total_steps
\* before the call, is_legal = is_adjacent(input, output) and delta =
\* (output - input) mod 7; it adds 1 to total_steps and to exactly one of
\* legal_steps and illegal_steps; for an illegal transition it attaches to
\* the step and appends to gray_events one adjacency_violation Gray Event
\* with index = step_number and the step's from, to and delta; for a legal
\* one it attaches none and appends none.
C19_AddStep == [][pc' = "trace" => C19_Step]_vars

C19_Witness ==
    /\ pc = "trace"
    /\ call.fn = "add_step"
    /\ trace.total_steps = 2
    /\ trace.steps[1].is_legal
    /\ ~ trace.steps[2].is_legal
    /\ trace.steps[2].gray_event # None
    /\ trace.steps[2].gray_event[1]["index"] = 1
    /\ Len(trace.gray_events) = 1

\* C20: after any sequence of add_step calls on a trace made by
\* create_trace, total_steps = legal_steps + illegal_steps = the number of
\* recorded steps, legal_steps = the number of steps with is_legal true,
\* illegal_steps = the number of gray_events = the number of steps carrying
\* a gray_event, and the k-th recorded step (from 0) has step_number k.
C20_Counters ==
    pc = "trace"
    => LET steps == trace.steps
       IN /\ trace.total_steps = trace.legal_steps + trace.illegal_steps
          /\ trace.total_steps = Len(steps)
          /\ trace.legal_steps
                = Cardinality({k \in 1..Len(steps) : steps[k].is_legal})
          /\ trace.illegal_steps = Len(trace.gray_events)
          /\ trace.illegal_steps
                = Cardinality({k \in 1..Len(steps) : steps[k].gray_event # None})
          /\ \A k \in 0..(Len(steps) - 1) : steps[k + 1].step_number = k

C20_Witness ==
    /\ pc = "trace"
    /\ trace.total_steps = 3
    /\ trace.legal_steps = 1
    /\ trace.illegal_steps = 2
    /\ Len(trace.gray_events) = 2
    /\ trace.steps[3].step_number = 2

\* one step of a trace's life: trace before it, trace' after it
C21_Step ==
    /\ trace'.trace_id = trace.trace_id
    /\ trace'.start_time = trace.start_time
    /\ Len(trace'.steps) >= Len(trace.steps)
    /\ SubSeq(trace'.steps, 1, Len(trace.steps)) = trace.steps
    /\ Len(trace'.gray_events) >= Len(trace.gray_events)
    /\ SubSeq(trace'.gray_events, 1, Len(trace.gray_events)) = trace.gray_events
    /\ trace'.total_steps >= trace.total_steps
    /\ trace'.legal_steps >= trace.legal_steps
    /\ trace'.illegal_steps >= trace.illegal_steps

\* C21: a trace is append-only: every add_step leaves trace_id, start_time,
\* the steps recorded before and the Gray Events emitted before unchanged
\* and in their order, and total_steps, legal_steps, illegal_steps, the step
\* list and the Gray Event list never shrink, whatever the operations.
C21_AppendOnly == [][C21_Step]_vars

C21_Witness ==
    /\ pc = "loaded"
    /\ trace.total_steps = 3
    /\ ~ trace.steps[1].is_legal
    /\ trace.steps[2].is_legal
    /\ ~ trace.steps[3].is_legal
    /\ Len(trace.gray_events) = 2
    /\ trace.gray_events[1]["index"] = 0
    /\ trace.gray_events[2]["index"] = 2

RECURSIVE Alone(_, _)
Alone(self, inputs) ==
    IF inputs = << >> THEN self
    ELSE Alone(add_step(self, Head(inputs)[1], "forward", Head(inputs)[2],
                        None, None, 1).self,
               Tail(inputs))

\* C25: sessions that each append to their own ExecutionTrace do not
\* interfere: under every interleaving of their add_step calls each trace
\* has exactly the steps, counters and Gray Events it has when its session
\* runs alone, so an add_step on one trace leaves every other unchanged.
C25_Independent ==
    pc = "sessions"
    => \A s \in Sessions :
          TraceValue(sessions.heap, sessions.traces[s])
             = Alone(create_trace(Some(s), 1), sessions.fed[s])

C25_Witness ==
    /\ pc = "sessions"
    /\ sessions.fed["a"] = << <<0, 3>>, <<0, 1>> >>
    /\ sessions.fed["b"] = << <<6, 0>>, <<2, 2>> >>
    /\ call.session = "a"
    /\ Len(sessions.heap[sessions.traces["a"].gray_events]) = 1
    /\ Len(sessions.heap[sessions.traces["b"].gray_events]) = 1
    /\ sessions.traces["a"].steps # sessions.traces["b"].steps

(***************************************************************************)
(* Properties of the codex check command (SpecCheck).                      *)
(***************************************************************************)
\* the command read an input and parsed it
Checked ==
    /\ pc = "return" /\ call.fn = "codex_check"
    /\ call.source \in {"stdin", "file"}
    /\ call.content.kind # "bad_json"

\* a token of the input that is not in the canonical alphabet: an index
\* outside 0..6, a name or a symbol that is no colour's, a JSON null
NotCanonical(form, token) ==
    CASE form = "json" ->
            CASE token.json = "number" -> token.value \notin 0..6
              [] token.json = "string" -> NAME_TO_INDEX(lower(token.value)) = None
              [] token.json = "null" -> TRUE
              [] OTHER -> FALSE
      [] form = "symbols" -> SYMBOL_TO_INDEX(token[1]) = None
      [] form = "names" -> NAME_TO_INDEX(lower(token)) = None

\* C23: in codex check, every input token that is not in the canonical
\* alphabet is surfaced as an unknown_token Gray Event and makes the verdict
\* not valid (exit code 1), in every input form (JSON array, symbol string,
\* one name per line) and wherever the unknown token stands.
C23_UnknownSurfaced ==
    Checked =>
        \A k \in 1..Len(call.tokens) :
            NotCanonical(call.form, call.tokens[k]) =>
                /\ ret.code = 1
                /\ \E j \in 1..Len(ret.parse_errors) :
                      ret.parse_errors[j].type = "unknown_token"

Streamed ==
    /\ pc = "stream"
    /\ trace.total_steps = (IF Len(call.sequence) = 0 THEN 0
                            ELSE Len(call.sequence) - 1)

\* C26: for every sequence of indices in 0..6, feeding its consecutive pairs
\* in order to add_step on a fresh trace yields steps whose is_legal and
\* delta follow the batch rule, and a Gray Event list as long as
\* validate_sequence's violations that carries, entry by entry, the same
\* index, from, to and delta; illegal_steps is 0 iff the sequence is valid.
C26_StreamMatchesBatch ==
    Streamed =>
        LET seq == call.sequence
            batch == validate_sequence(seq).value
            violations == batch[2]
        IN /\ Len(trace.steps) = trace.total_steps
           /\ \A k \in 1..Len(trace.steps) :
                 /\ trace.steps[k].input_state = seq[k]
                 /\ trace.steps[k].output_state = seq[k + 1]
                 /\ trace.steps[k].delta = (seq[k + 1] - seq[k]) % 7
                 /\ trace.steps[k].is_legal <=> (k - 1) \notin IllegalPositions(seq)
           /\ Len(trace.gray_events) = Len(violations)
           /\ \A j \in 1..Len(violations) :
                 /\ trace.gray_events[j]["index"] = violations[j]["index"]
                 /\ trace.gray_events[j]["from"] = violations[j]["from"]
                 /\ trace.gray_events[j]["to"] = violations[j]["to"]
                 /\ trace.gray_events[j]["delta"] = violations[j]["delta"]
           /\ trace.illegal_steps = 0 <=> batch[1]

C26_Witness ==
    /\ Streamed
    /\ call.sequence = <<0, 1, 3, 2>>
    /\ trace.illegal_steps = 1
    /\ trace.legal_steps = 2
    /\ trace.gray_events[1]["index"] = 1
    /\ ~ validate_sequence(call.sequence).value[1]

(***************************************************************************)
(* The legacy degeneracy check (SpecDegen).                                *)
(***************************************************************************)
\* C27: is_degenerate(data) gives the verdict of detect_degeneracy on the
\* same bytes with the default thresholds whenever no plateau is detected,
\* for every input; the empty input is not degenerate.
C27_LegacyAgrees ==
    Done("is_degenerate") =>
        LET detailed == detect_degeneracy(call.data, DefaultWindowSize,
                            DEGENERACY_COMPRESSION_THRESHOLD,
                            DEGENERACY_ENTROPY_THRESHOLD,
                            DEGENERACY_NCD_THRESHOLD)
        IN /\ detailed.raised = "none" /\ ~ detailed.value.plateau_detected
                 => ret.value = detailed.value.is_degenerate
           /\ call.data = << >> => ~ ret.value

(***************************************************************************)
(* Properties of the verification service (SpecVerify).                    *)
(***************************************************************************)
\* the order in which classify_phase tests the phases, strictest first
StrictnessOrder ==
    <<"WHITE_LATTICE", "YELLOW_IGNITION", "GREEN_ACCUMULATION",
      "RED_COMBUSTION", "ORANGE_HARVEST", "BLUE_DISPERSION", "BLACK_COLLAPSE">>

Strictness(phase) == CHOOSE k \in 1..7 : StrictnessOrder[k] = phase

\* C30: verify_text is monotone in phase strictness: for every threshold
\* phase, a text is reported verified iff its detected phase is the
\* threshold phase or a stricter one in the order classify_phase tests them
\* (White, Yellow, Green, Red, Orange, Blue, Black).
C30_Monotone ==
    Done("verify_text") /\ ret.raised = "none" =>
        /\ ret.value.detected_phase =
              classify_phase(shannon_entropy(call.text),
                             verify_compression_ratio(call.text))
        /\ ret.value.verified <=>
              Strictness(ret.value.detected_phase) <= Strictness(call.threshold)

(***************************************************************************)
(* Properties of the Septenary Spirit Engine (SpecEngine).                 *)
(***************************************************************************)
PhaseCycle ==
    <<"BLACK", "WHITE", "YELLOW", "BROWN", "RED", "GREEN", "BLUE", "VIOLET">>

\* C28: from a fresh engine (BLACK, cycle_count 0), successive steps move
\* the phase through BLACK, WHITE, YELLOW, BROWN, RED, GREEN, BLUE, VIOLET
\* and back to BLACK, again and again; cycle_count grows by exactly 1 on
\* each transition out of BLUE and on no other; after 8k steps the phase is
\* BLACK and cycle_count is k.
C28_PhaseCycle ==
    pc = "engine" =>
        LET history == engine.history
            n == Len(history)
            \* the phase and the count step i starts from and ends in
            before(i) == history[i]
            after(i) == IF i < n THEN history[i + 1] ELSE engine.state
        IN /\ n > 0 => history[1].phase = "BLACK" /\ history[1].cycle_count = 0
           /\ n = 0 => engine.state.phase = "BLACK" /\ engine.state.cycle_count = 0
           /\ \A i \in 1..n :
                 /\ \E k \in 1..8 :
                       /\ before(i).phase = PhaseCycle[k]
                       /\ after(i).phase = PhaseCycle[(k % 8) + 1]
                 /\ after(i).cycle_count = before(i).cycle_count
                       + (IF before(i).phase = "BLUE" THEN 1 ELSE 0)
           /\ n % 8 = 0 =>
                 /\ engine.state.phase = "BLACK"
                 /\ engine.state.cycle_count = n \div 8

C28_Witness ==
    /\ pc = "engine"
    /\ Len(engine.history) = 16
    /\ call.fn = "step"
    /\ engine.state.phase = "BLACK"
    /\ engine.state.cycle_count = 2
    /\ engine.history[16].phase = "VIOLET"

\* C29: after one complete cycle (seven phase steps followed by the Violet
\* closure step) the angle on the 364-degree Living Wheel is back at its
\* value from the start of the cycle.
C29_AngleReturns ==
    /\ pc = "engine"
    /\ call.fn = "run_full_cycle"
    /\ Len(ret.value) = 8
    => LET n == Len(engine.history)
           start == IF n = 8 THEN SeptenaryEngine.state.angle
                    ELSE engine.history[n - 8].angle
       IN engine.state.angle = start

====
